---------------------------- MODULE Spec2Model ----------------------------
(***************************************************************************)
(* Model of the AI post-sales copilot's extraction and unification core:   *)
(*   app/services/nlp_service.py  (NLPService: the regex extractors)       *)
(*   app/services/crm_service.py  (CRMService: unify_customer_data)        *)
(*                                                                         *)
(* Python strings are TLA+ strings; Len, SubSeq and \o act on them as on   *)
(* sequences of characters, a character being a string of length 1.        *)
(* A Python value that may be None, or of one of several types, is held   *)
(* as a record tagged with its type: None, Str(s), Float(h); an exception  *)
(* raised is a record [exc |-> <its class name>].                          *)
(***************************************************************************)
EXTENDS Integers, Sequences, FiniteSets, TLC

VARIABLES
    text,             \* the contract text handed to an extractor
    op,               \* the extractor that has run on text ("none" before)
    renewal_date,     \* result of extract_renewal_date
    total_value,      \* result of extract_contract_value
    key_dates,        \* result of extract_all_dates
    obligations,      \* result of extract_obligations
    parties,          \* result of extract_parties
    nlp,              \* self.nlp: the loaded spaCy model, or None
    salesforce_data,  \* first argument of unify_customer_data
    hubspot_data,     \* second argument of unify_customer_data
    unified,          \* result of unify_customer_data
    date_str,         \* argument of _parse_date / normalize_date
    parsed,           \* result of _parse_date / normalize_date
    pads_year,        \* whether the C library's strftime pads %Y to four digits
    payment_terms,    \* result of extract_payment_terms
    requests,         \* the HTTP requests in progress or answered, by request id
    loads,            \* how often spacy.load and pipeline(..) have been called
    contracts,        \* the contracts table
    background_tasks, \* the tasks added to BackgroundTasks, by request id
    crm_db            \* the customers and crm_records tables

\* the state of the web application around the services
backend == <<requests, loads, contracts, background_tasks, crm_db>>

vars == <<text, op, renewal_date, total_value, key_dates, obligations, parties,
          nlp, salesforce_data, hubspot_data, unified, date_str, parsed, pads_year,
          payment_terms, backend>>

None == [ty |-> "NoneType"]
Str(s) == [ty |-> "str", v |-> s]
\* a variable that holds no result yet
Unset == [ty |-> "unset"]

\* no request has been made of the web application
NoBackend ==
    /\ requests = <<>> /\ loads = [spacy |-> 0, pipeline |-> 0]
    /\ contracts = <<>> /\ background_tasks = <<>>
    /\ crm_db = [customers |-> <<>>, crm_records |-> <<>>]

(***************************************************************************)
(* Characters.                                                             *)
(***************************************************************************)
Digit == {"0", "1", "2", "3", "4", "5", "6", "7", "8", "9"}
LowerLetter == {"a", "b", "c", "d", "e", "f", "g", "h", "i", "j", "k", "l", "m",
                "n", "o", "p", "q", "r", "s", "t", "u", "v", "w", "x", "y", "z"}
UpperLetter == {"A", "B", "C", "D", "E", "F", "G", "H", "I", "J", "K", "L", "M",
                "N", "O", "P", "Q", "R", "S", "T", "U", "V", "W", "X", "Y", "Z"}
Whitespace == {" ", "\t", "\n", "\r"}
UpperAlphabet == "ABCDEFGHIJKLMNOPQRSTUVWXYZ"
LowerAlphabet == "abcdefghijklmnopqrstuvwxyz"

\* str.lower() on one character
LowerChar(c) ==
    IF c \in UpperLetter
    THEN LET i == CHOOSE j \in 1..Len(UpperAlphabet) : SubSeq(UpperAlphabet, j, j) = c
         IN SubSeq(LowerAlphabet, i, i)
    ELSE c

\* str.lower()
RECURSIVE lower(_)
lower(s) ==
    IF Len(s) = 0 THEN ""
    ELSE IF Len(s) = 1 THEN LowerChar(s)
    ELSE lower(SubSeq(s, 1, Len(s) \div 2)) \o lower(SubSeq(s, Len(s) \div 2 + 1, Len(s)))

\* str.strip(): leading and trailing whitespace removed
strip(s) ==
    LET keep == {i \in 1..Len(s) : SubSeq(s, i, i) \notin Whitespace}
    IN IF keep = {} THEN ""
       ELSE SubSeq(s, CHOOSE i \in keep : \A j \in keep : i <= j,
                      CHOOSE i \in keep : \A j \in keep : j <= i)

\* str.replace(old, new) for a one-character old
RECURSIVE replace(_, _, _)
replace(s, old, new) ==
    IF Len(s) = 0 THEN ""
    ELSE IF Len(s) = 1 THEN (IF s = old THEN new ELSE s)
    ELSE replace(SubSeq(s, 1, Len(s) \div 2), old, new)
         \o replace(SubSeq(s, Len(s) \div 2 + 1, Len(s)), old, new)

\* `needle in haystack` on strings
Contains(haystack, needle) ==
    \E i \in 1..(Len(haystack) - Len(needle) + 1) :
        SubSeq(haystack, i, i + Len(needle) - 1) = needle

\* int() of a string of decimal digits
DigitVal(c) == CHOOSE d \in 0..9 : SubSeq("0123456789", d + 1, d + 1) = c
RECURSIVE int(_)
int(s) ==
    IF Len(s) = 0 THEN 0
    ELSE 10 * int(SubSeq(s, 1, Len(s) - 1)) + DigitVal(SubSeq(s, Len(s), Len(s)))

(***************************************************************************)
(* Python's re module: a backtracking matcher.  A pattern is a sequence of *)
(* nodes; MatchK tries them left to right from position i and returns the  *)
(* first success in backtracking order (alternatives left to right, greedy *)
(* repetition longest first), which is the match re reports.               *)
(***************************************************************************)
Lit(s) == [t |-> "lit", s |-> s]
Set(cs) == [t |-> "set", cs |-> cs, neg |-> FALSE]
NotSet(cs) == [t |-> "set", cs |-> cs, neg |-> TRUE]
Alt(alts) == [t |-> "alt", alts |-> alts]
Rep(body, lo, hi) == [t |-> "rep", body |-> body, lo |-> lo, hi |-> hi, unb |-> FALSE]
Star(body) == [t |-> "rep", body |-> body, lo |-> 0, hi |-> 0, unb |-> TRUE]
Plus(body) == [t |-> "rep", body |-> body, lo |-> 1, hi |-> 0, unb |-> TRUE]
Opt(body) == Rep(body, 0, 1)
Open(g) == [t |-> "open", g |-> g]
Close(g) == [t |-> "close", g |-> g]
Group(g, body) == <<Open(g)>> \o body \o <<Close(g)>>

NoMatch == [ok |-> FALSE, start |-> 0, end |-> 0, caps |-> <<>>]
NoCaps == [g \in 1..3 |-> <<0, 0>>]

RECURSIVE MatchK(_, _, _, _, _)
MatchK(k, s, i, caps, ic) ==
    IF Len(k) = 0 THEN [ok |-> TRUE, start |-> 0, end |-> i, caps |-> caps]
    ELSE
    LET n == Head(k)
        rest == Tail(k)
    IN CASE n.t = "lit" ->
              LET j == i + Len(n.s) - 1
                  got == IF j <= Len(s) THEN SubSeq(s, i, j) ELSE ""
              IN IF j <= Len(s) /\ (IF ic THEN lower(got) = lower(n.s) ELSE got = n.s)
                 THEN MatchK(rest, s, j + 1, caps, ic)
                 ELSE NoMatch
         [] n.t = "set" ->
              IF i <= Len(s)
                 /\ LET c == SubSeq(s, i, i)
                        in == c \in n.cs \/ (ic /\ LowerChar(c) \in n.cs)
                    IN in # n.neg
              THEN MatchK(rest, s, i + 1, caps, ic)
              ELSE NoMatch
         [] n.t = "alt" ->
              LET tries == [a \in 1..Len(n.alts) |-> MatchK(n.alts[a] \o rest, s, i, caps, ic)]
                  oks == {a \in 1..Len(n.alts) : tries[a].ok}
              IN IF oks = {} THEN NoMatch
                 ELSE tries[CHOOSE a \in oks : \A b \in oks : a <= b]
         [] n.t = "rep" /\ Len(n.body) = 1 /\ n.body[1].t = "set" /\ n.unb /\ n.body[1].neg ->
              \* [^...]* and [^...]+ : the longest run that the rest can follow
              LET in(j) == /\ j <= Len(s)
                           /\ LET c == SubSeq(s, j, j)
                                  hit == c \in n.body[1].cs
                                         \/ (ic /\ LowerChar(c) \in n.body[1].cs)
                              IN hit # n.body[1].neg
                  run == CHOOSE r \in 0..(Len(s) - i + 1) :
                             /\ \A j \in i..(i + r - 1) : in(j)
                             /\ ~in(i + r)
                  top == IF n.unb \/ run <= n.hi THEN run ELSE n.hi
                  oks == {c \in n.lo..top : MatchK(rest, s, i + c, caps, ic).ok}
              IN IF oks = {} THEN NoMatch
                 ELSE MatchK(rest, s, i + (CHOOSE c \in oks : \A d \in oks : d <= c), caps, ic)
         [] n.t = "rep" ->
              LET more == IF n.unb \/ n.hi > 0
                          THEN MatchK(n.body \o <<[n EXCEPT !.lo = IF n.lo > 0 THEN n.lo - 1 ELSE 0,
                                                            !.hi = IF n.unb THEN 0 ELSE n.hi - 1]>>
                                             \o rest, s, i, caps, ic)
                          ELSE NoMatch
              IN IF more.ok THEN more
                 ELSE IF n.lo = 0 THEN MatchK(rest, s, i, caps, ic)
                 ELSE NoMatch
         [] n.t = "open" ->
              MatchK(rest, s, i, [caps EXCEPT ![n.g] = <<i, 0>>], ic)
         [] n.t = "close" ->
              MatchK(rest, s, i, [caps EXCEPT ![n.g] = <<caps[n.g][1], i - 1>>], ic)

\* match.group(g)
group(s, m, g) == SubSeq(s, m.caps[g][1], m.caps[g][2])

\* re.match(pattern, s): a match anchored at the first character
match(k, s, ic) == MatchK(k, s, 1, NoCaps, ic)

\* re.search(pattern, s) from position `from`: the leftmost match
search(k, s, from, ic) ==
    LET leftmost(starts) ==
            IF starts = {} THEN NoMatch
            ELSE LET st == CHOOSE i \in starts : \A j \in starts : i <= j
                 IN [MatchK(k, s, st, NoCaps, ic) EXCEPT !.start = st]
    IN leftmost({i \in from..(Len(s) + 1) : MatchK(k, s, i, NoCaps, ic).ok})

\* re.finditer(pattern, s): the successive non-overlapping matches, left to right
RECURSIVE finditer(_, _, _, _)
finditer(k, s, from, ic) ==
    LET onward(m) ==
            IF ~m.ok THEN <<>>
            ELSE <<m>> \o finditer(k, s, IF m.end > m.start THEN m.end ELSE m.end + 1, ic)
    IN onward(search(k, s, from, ic))

\* re.findall(pattern, s) for a pattern with one group: the group of each match
findall(k, s, ic) ==
    LET groups(ms) == [x \in 1..Len(ms) |-> group(s, ms[x], 1)]
    IN groups(finditer(k, s, 1, ic))

(***************************************************************************)
(* datetime.strptime and datetime.strftime, as normalize_date uses them.   *)
(* strptime turns the format into a regular expression (one group per      *)
(* directive, a run of whitespace into \s+), matches it case-insensitively *)
(* at the start of the string and rejects unconverted trailing data; then  *)
(* it builds the date, which rejects year 0 and a day the month lacks.     *)
(* Groups: 1 the year, 2 the month, 3 the day.                             *)
(***************************************************************************)
ValueError == [exc |-> "ValueError"]
AttributeError == [exc |-> "AttributeError"]
IntegrityError == [exc |-> "IntegrityError"]
IsExc(v) == v \in {ValueError, AttributeError, IntegrityError}

NonZeroDigit == Digit \ {"0"}
MonthNames == <<"january", "february", "march", "april", "may", "june", "july",
                "august", "september", "october", "november", "december">>
MonthAbbrs == <<"jan", "feb", "mar", "apr", "may", "jun", "jul", "aug", "sep",
                "oct", "nov", "dec">>
\* the order in which _strptime lists the full names (longest first)
MonthNamesByLength == <<"september", "february", "november", "december", "january",
                        "october", "august", "march", "april", "june", "july", "may">>
Lits(names) == [x \in 1..Len(names) |-> <<Lit(names[x])>>]

Directive(c) ==
    CASE c = "d" -> Group(3, <<Alt(<< <<Lit("3"), Set({"0", "1"})>>,
                                      <<Set({"1", "2"}), Set(Digit)>>,
                                      <<Lit("0"), Set(NonZeroDigit)>>,
                                      <<Set(NonZeroDigit)>>,
                                      <<Lit(" "), Set(NonZeroDigit)>> >>)>>)
      [] c = "m" -> Group(2, <<Alt(<< <<Lit("1"), Set({"0", "1", "2"})>>,
                                      <<Lit("0"), Set(NonZeroDigit)>>,
                                      <<Set(NonZeroDigit)>> >>)>>)
      [] c = "Y" -> Group(1, <<Rep(<<Set(Digit)>>, 4, 4)>>)
      [] c = "y" -> Group(1, <<Rep(<<Set(Digit)>>, 2, 2)>>)
      [] c = "B" -> Group(2, <<Alt(Lits(MonthNamesByLength))>>)
      [] c = "b" -> Group(2, <<Alt(Lits(MonthAbbrs))>>)

\* _strptime's TimeRE.pattern(format)
RECURSIVE FormatPattern(_)
FormatPattern(fmt) ==
    IF Len(fmt) = 0 THEN <<>>
    ELSE LET c == SubSeq(fmt, 1, 1)
         IN IF c = "%" THEN Directive(SubSeq(fmt, 2, 2)) \o FormatPattern(SubSeq(fmt, 3, Len(fmt)))
            ELSE IF c \in Whitespace THEN <<Plus(<<Set(Whitespace)>>)>> \o FormatPattern(SubSeq(fmt, 2, Len(fmt)))
            ELSE <<Lit(c)>> \o FormatPattern(SubSeq(fmt, 2, Len(fmt)))

IndexOf(names, w) == CHOOSE x \in 1..Len(names) : names[x] = w

IsLeap(y) == (y % 4 = 0 /\ y % 100 # 0) \/ y % 400 = 0
DaysInMonth(y, m) ==
    IF m = 2 THEN (IF IsLeap(y) THEN 29 ELSE 28)
    ELSE IF m \in {4, 6, 9, 11} THEN 30 ELSE 31

\* datetime.strptime(data, fmt): a date [year, month, day], or ValueError
strptime(data, fmt) ==
    LET year(yy) == IF Contains(fmt, "%y")
                    THEN (IF yy <= 68 THEN 2000 + yy ELSE 1900 + yy)
                    ELSE yy
        month(mm) == IF Contains(fmt, "%B") THEN IndexOf(MonthNames, mm)
                     ELSE IF Contains(fmt, "%b") THEN IndexOf(MonthAbbrs, mm)
                     ELSE int(mm)
        date(y, mo, d) == IF y < 1 \/ d > DaysInMonth(y, mo) THEN ValueError
                          ELSE [year |-> y, month |-> mo, day |-> d]
        found(m) == IF ~m.ok \/ m.end # Len(data) + 1 THEN ValueError
                    ELSE date(year(int(group(data, m, 1))),
                              month(lower(group(data, m, 2))),
                              int(strip(group(data, m, 3))))
    IN found(match(FormatPattern(fmt), data, TRUE))

Pad2(n) == IF n < 10 THEN "0" \o ToString(n) ELSE ToString(n)

\* dt.strftime('%Y-%m-%d'): %m and %d are zero-padded to two digits; %Y is the
\* C library's: glibc prints a year below 1000 without leading zeros, other
\* libraries pad it to four digits
Pad4(n) == IF n < 10 THEN "000" \o ToString(n)
           ELSE IF n < 100 THEN "00" \o ToString(n)
           ELSE IF n < 1000 THEN "0" \o ToString(n) ELSE ToString(n)
strftime(dt) ==
    (IF dt.year < 1000 /\ pads_year THEN Pad4(dt.year) ELSE ToString(dt.year))
    \o "-" \o Pad2(dt.month) \o "-" \o Pad2(dt.day)

(***************************************************************************)
(* NLPService.normalize_date                                               *)
(***************************************************************************)
formats == <<"%m/%d/%Y", "%m-%d-%Y", "%Y-%m-%d",
             "%m/%d/%y", "%m-%d-%y",
             "%B %d, %Y", "%b %d, %Y",
             "%d %B %Y", "%d %b %Y">>

\* (for comparison) a string that no format parses raises ValueError
RECURSIVE try_formats_raising(_, _)
try_formats_raising(s, f) ==
    IF f > Len(formats) THEN ValueError
    ELSE LET dt == strptime(strip(s), formats[f])
         IN IF IsExc(dt) THEN try_formats_raising(s, f + 1)
            ELSE Str(strftime(dt))

\* the for loop of normalize_date, from the f-th format on
RECURSIVE try_formats(_, _)
try_formats(s, f) ==
    IF f > Len(formats) THEN Str(s)
    ELSE LET tried(dt) == IF IsExc(dt) THEN try_formats(s, f + 1)
                          ELSE Str(strftime(dt))
         IN tried(strptime(strip(s), formats[f]))

normalize_date(s) == try_formats(s, 1)

(***************************************************************************)
(* NLPService.extract_renewal_date                                         *)
(***************************************************************************)
Ws == Set(Whitespace)
\* \d{1,2}[/-]\d{1,2}[/-]\d{2,4}
NumericDate == <<Rep(<<Set(Digit)>>, 1, 2), Set({"/", "-"}), Rep(<<Set(Digit)>>, 1, 2),
                 Set({"/", "-"}), Rep(<<Set(Digit)>>, 2, 4)>>
OnBy == Alt(<< <<Lit("on")>>, <<Lit("by")>> >>)
WsColon == Plus(<<Set(Whitespace \cup {":"})>>)

renewal_patterns ==
    << <<Lit("renew"), Opt(<<Alt(<< <<Lit("al")>>, <<Lit("s")>> >>)>>), Plus(<<Ws>>),
         Alt(<< <<Lit("date")>>, <<Lit("on")>>, <<Lit("by")>> >>), WsColon>>
         \o Group(1, NumericDate),
       <<Lit("expire"), Opt(<<Lit("s")>>), Plus(<<Ws>>), OnBy, WsColon>>
         \o Group(1, NumericDate),
       <<Lit("term"), Plus(<<Ws>>), Lit("end"), Opt(<<Lit("s")>>), Plus(<<Ws>>), OnBy, WsColon>>
         \o Group(1, NumericDate),
       Group(1, NumericDate) \o <<Plus(<<Ws>>), Lit("renewal")>>,
       <<Lit("automatically"), Plus(<<Ws>>), Lit("renew"),
         Opt(<<Alt(<< <<Lit("s")>>, <<Lit("ed")>> >>)>>), Plus(<<Ws>>), Lit("on"), Plus(<<Ws>>)>>
         \o Group(1, NumericDate) >>

\* the for loop of extract_renewal_date, from the p-th pattern on
RECURSIVE renewal_loop(_, _)
renewal_loop(text_lower, p) ==
    IF p > Len(renewal_patterns) THEN None
    ELSE LET searched(m) == IF m.ok THEN normalize_date(group(text_lower, m, 1))
                            ELSE renewal_loop(text_lower, p + 1)
         IN searched(search(renewal_patterns[p], text_lower, 1, FALSE))

\* the patterns joined into one alternation: the match that starts first in the
\* text wins, whatever its place in the list
extract_renewal_date_leftmost(t) ==
    LET text_lower == lower(t)
        ms == [p \in 1..Len(renewal_patterns) |-> search(renewal_patterns[p], text_lower, 1, FALSE)]
        found == {p \in 1..Len(renewal_patterns) : ms[p].ok}
    IN IF found = {} THEN None
       ELSE LET p == CHOOSE q \in found : \A r \in found :
                         ms[q].start < ms[r].start \/ (ms[q].start = ms[r].start /\ q <= r)
            IN normalize_date(group(text_lower, ms[p], 1))

extract_renewal_date(t) == renewal_loop(lower(t), 1)

(***************************************************************************)
(* NLPService.extract_payment_terms                                        *)
(***************************************************************************)
\* [^\n.]+
NotNewlineOrPeriod == Plus(<<NotSet({"\n", "."})>>)
Frequency == Alt(<< <<Lit("monthly")>>, <<Lit("quarterly")>>, <<Lit("annually")>>,
                    <<Lit("yearly")>> >>)
Days == <<Lit("day"), Opt(<<Lit("s")>>)>>

payment_patterns ==
    << <<Lit("payment"), Plus(<<Ws>>), Lit("term"), Opt(<<Lit("s")>>), WsColon>>
         \o Group(1, <<NotNewlineOrPeriod>>),
       <<Lit("net"), Plus(<<Ws>>)>> \o Group(1, <<Plus(<<Set(Digit)>>)>>)
         \o <<Plus(<<Ws>>)>> \o Days,
       <<Lit("payment"), Plus(<<Ws>>), Lit("due"), Plus(<<Ws>>)>>
         \o Group(1, <<NotNewlineOrPeriod>>),
       Group(1, <<Frequency>>) \o <<Plus(<<Ws>>), Lit("payment")>>,
       <<Lit("payment"), Plus(<<Ws>>)>> \o Group(1, <<Frequency>>),
       Group(1, <<Plus(<<Set(Digit)>>)>>) \o <<Plus(<<Ws>>)>> \o Days
         \o <<Plus(<<Ws>>), Lit("after"), Plus(<<Ws>>), Lit("invoice")>> >>

\* the for loop of extract_payment_terms, from the p-th pattern on
RECURSIVE payment_loop(_, _)
payment_loop(text_lower, p) ==
    IF p > Len(payment_patterns) THEN None
    ELSE LET searched(m) == IF m.ok THEN Str(strip(group(text_lower, m, 1)))
                            ELSE payment_loop(text_lower, p + 1)
         IN searched(search(payment_patterns[p], text_lower, 1, FALSE))

\* (for comparison) the match that starts first in the text, whatever its
\* pattern's place in the list
extract_payment_terms_leftmost(t) ==
    LET text_lower == lower(t)
        ms == [p \in 1..Len(payment_patterns) |->
                  search(payment_patterns[p], text_lower, 1, FALSE)]
        found == {p \in 1..Len(payment_patterns) : ms[p].ok}
    IN IF found = {} THEN None
       ELSE LET p == CHOOSE q \in found : \A r \in found :
                         ms[q].start < ms[r].start \/ (ms[q].start = ms[r].start /\ q <= r)
            IN Str(strip(group(text_lower, ms[p], 1)))

extract_payment_terms(t) == payment_loop(lower(t), 1)

(***************************************************************************)
(* NLPService.extract_contract_value.  A float is held as its number of    *)
(* hundredths (the amounts have at most two decimals): 1200.50 is 120050.  *)
(***************************************************************************)
\* [0-9,]+(?:\.[0-9]{2})?
Amount == <<Plus(<<Set(Digit \cup {","})>>), Opt(<<Lit("."), Rep(<<Set(Digit)>>, 2, 2)>>)>>
ValueAmountPrice == Alt(<< <<Lit("value")>>, <<Lit("amount")>>, <<Lit("price")>> >>)

value_patterns ==
    << <<Lit("$"), Star(<<Ws>>)>> \o Group(1, Amount),
       <<Lit("USD"), Star(<<Ws>>)>> \o Group(1, Amount),
       <<Lit("total"), Plus(<<Ws>>), ValueAmountPrice, WsColon, Opt(<<Lit("$")>>), Star(<<Ws>>)>>
         \o Group(1, Amount),
       <<Lit("contract"), Plus(<<Ws>>), ValueAmountPrice, WsColon, Opt(<<Lit("$")>>), Star(<<Ws>>)>>
         \o Group(1, Amount) >>

Float(hundredths) == [ty |-> "float", hundredths |-> hundredths]

\* float(s) for s of the shape [0-9]*(\.[0-9]{2})?: float('') raises ValueError,
\* every other such string is a number (float('.50') is 0.5)
float_raises(s) == s = ""
float(s) ==
    IF Len(s) >= 3 /\ SubSeq(s, Len(s) - 2, Len(s) - 2) = "."
    THEN 100 * int(SubSeq(s, 1, Len(s) - 3)) + int(SubSeq(s, Len(s) - 1, Len(s)))
    ELSE 100 * int(s)

\* the amounts list built from the matches: the ones float() accepts, in order
RECURSIVE parse_amounts(_)
parse_amounts(matches) ==
    IF Len(matches) = 0 THEN <<>>
    ELSE LET stripped == replace(Head(matches), ",", "")
         IN (IF float_raises(stripped) THEN <<>> ELSE <<float(stripped)>>)
            \o parse_amounts(Tail(matches))

\* (for comparison) the last amount in place of the largest
last_amount(amounts) == amounts[Len(amounts)]

max(amounts) == CHOOSE a \in {amounts[x] : x \in 1..Len(amounts)} :
                    \A y \in 1..Len(amounts) : amounts[y] <= a

\* (for comparison) every pattern's amounts pooled before the maximum is taken
value_pooled(text_lower, p) ==
    LET RECURSIVE pooled(_)
        pooled(q) == IF q > Len(value_patterns) THEN <<>>
                     ELSE parse_amounts(findall(value_patterns[q], text_lower, FALSE))
                          \o pooled(q + 1)
    IN IF Len(pooled(p)) = 0 THEN None ELSE Float(max(pooled(p)))

\* the for loop of extract_contract_value, from the p-th pattern on
RECURSIVE value_loop(_, _)
value_loop(text_lower, p) ==
    IF p > Len(value_patterns) THEN None
    ELSE LET parsed_as(matches, amounts) ==
                 IF Len(matches) > 0 /\ Len(amounts) > 0 THEN Float(max(amounts))
                 ELSE value_loop(text_lower, p + 1)
             found(matches) == parsed_as(matches, parse_amounts(matches))
         IN found(findall(value_patterns[p], text_lower, FALSE))

extract_contract_value(t) == value_loop(lower(t), 1)

(***************************************************************************)
(* NLPService.extract_all_dates                                            *)
(***************************************************************************)
ContextChars == 20
MaxDates == 10

Month == Alt(Lits(<<"Jan", "Feb", "Mar", "Apr", "May", "Jun", "Jul", "Aug", "Sep",
                    "Oct", "Nov", "Dec">>))
date_patterns ==
    << Group(1, NumericDate),
       Group(1, <<Rep(<<Set(Digit)>>, 1, 2), Plus(<<Ws>>), Month, Star(<<Set(LowerLetter)>>),
                  Plus(<<Ws>>), Rep(<<Set(Digit)>>, 2, 4)>>),
       Group(1, <<Month, Star(<<Set(LowerLetter)>>), Plus(<<Ws>>), Rep(<<Set(Digit)>>, 1, 2),
                  Opt(<<Lit(",")>>), Plus(<<Ws>>), Rep(<<Set(Digit)>>, 2, 4)>>) >>

Min2(a, b) == IF a <= b THEN a ELSE b
Max2(a, b) == IF a >= b THEN a ELSE b

\* the dict appended for one match (match.start() is m.start - 1, match.end() is m.end - 1)
date_entry(t, m) ==
    LET str == group(t, m, 1)
        start == Max2(0, (m.start - 1) - ContextChars)
        end == Min2(Len(t), (m.end - 1) + ContextChars)
    IN [date |-> normalize_date(str),
        context |-> replace(SubSeq(t, start + 1, end), "\n", " "),
        original |-> str]

\* the dates list after the loop over the patterns from the p-th on
RECURSIVE dates_loop(_, _)
dates_loop(t, p) ==
    IF p > Len(date_patterns) THEN <<>>
    ELSE LET entries(ms) == [x \in 1..Len(ms) |-> date_entry(t, ms[x])]
         IN entries(finditer(date_patterns[p], t, 1, TRUE)) \o dates_loop(t, p + 1)

\* (for comparison) the list without a cap
uncapped(seq, n) == seq

\* seq[:n]
Prefix(seq, n) == SubSeq(seq, 1, Min2(n, Len(seq)))

extract_all_dates(t) == Prefix(dates_loop(t, 1), MaxDates)

(***************************************************************************)
(* NLPService.extract_obligations                                          *)
(***************************************************************************)
MaxObligations == 10
MinObligationLen == 10
MaxObligationLen == 500

obligation_keywords == <<"shall", "must", "will", "agrees to", "commits to",
                         "is responsible for", "undertakes to", "obligated to">>

\* str.split(sep) for a one-character sep
split(s, sep) ==
    LET at == {i \in 1..Len(s) : SubSeq(s, i, i) = sep}
        nth(n) == IF n = 0 THEN 0
                  ELSE IF n > Cardinality(at) THEN Len(s) + 1
                  ELSE CHOOSE i \in at : Cardinality({j \in at : j < i}) = n - 1
    IN [n \in 1..(Cardinality(at) + 1) |-> SubSeq(s, nth(n - 1) + 1, nth(n) - 1)]

\* (for comparison) the length test with the bounds included
collect_obligations_inclusive(sentences) ==
    LET hit(x) == \E kw \in 1..Len(obligation_keywords) :
                      Contains(lower(sentences[x]), obligation_keywords[kw])
        accepted(x) == /\ hit(x)
                       /\ Len(strip(sentences[x])) >= MinObligationLen
                       /\ Len(strip(sentences[x])) <= MaxObligationLen
        kept == SelectSeq([x \in 1..Len(sentences) |-> x], accepted)
    IN [y \in 1..Len(kept) |-> strip(sentences[kept[y]])]

\* the obligations list after the loop over the sentences
collect_obligations(sentences) ==
    LET hit(x) == \E kw \in 1..Len(obligation_keywords) :
                      Contains(lower(sentences[x]), obligation_keywords[kw])
        accepted(x) == /\ hit(x)
                       /\ Len(strip(sentences[x])) > MinObligationLen
                       /\ Len(strip(sentences[x])) < MaxObligationLen
        kept == SelectSeq([x \in 1..Len(sentences) |-> x], accepted)
    IN [y \in 1..Len(kept) |-> strip(sentences[kept[y]])]

\* "Deduplicate while preserving order"
dedup(items) ==
    LET first(x) == \A y \in 1..(x - 1) : items[y] # items[x]
        kept == SelectSeq([x \in 1..Len(items) |-> x], first)
    IN [y \in 1..Len(kept) |-> items[kept[y]]]

\* (for comparison) the list cut to its cap before it is deduplicated
extract_obligations_cut_first(t) ==
    dedup(Prefix(collect_obligations(split(t, ".")), MaxObligations))

extract_obligations(t) == Prefix(dedup(collect_obligations(split(t, "."))), MaxObligations)

(***************************************************************************)
(* NLPService.extract_parties.  spaCy is outside the repository: self.nlp  *)
(* is None when the model failed to load; a loaded model is held as the    *)
(* names it recognises with their labels, and reports as doc.ents each     *)
(* such name occurring in the text it is given, in order of occurrence.    *)
(***************************************************************************)
MaxParties == 5
NlpPrefix == 5000

NameChars == UpperLetter \cup LowerLetter \cup Whitespace \cup {"&", ","}
party_patterns ==
    << <<Lit("between"), Plus(<<Ws>>)>>
         \o Group(1, <<Set(UpperLetter), Plus(<<Set(NameChars)>>)>>)
         \o <<Plus(<<Ws>>), Lit("and")>>,
       <<Lit("PARTIES:"), Star(<<Ws>>)>> \o Group(1, <<Plus(<<NotSet({"\n"})>>)>>),
       <<Lit("\"")>> \o Group(1, <<Set(UpperLetter), Plus(<<Set(NameChars)>>)>>)
         \o <<Lit("\""), Plus(<<Ws>>), Lit("("), Star(<<NotSet({"\n"})>>), Lit("Company)")>> >>

\* the parties list before deduplication: the ORG and PERSON entities, then the
\* findall of each pattern
RECURSIVE party_matches(_, _)
party_matches(t, p) ==
    IF p > Len(party_patterns) THEN <<>>
    ELSE findall(party_patterns[p], t, FALSE) \o party_matches(t, p + 1)

FirstIndex(s, w) == CHOOSE i \in 1..Len(s) :
                        /\ SubSeq(s, i, i + Len(w) - 1) = w
                        /\ \A j \in 1..(i - 1) : SubSeq(s, j, j + Len(w) - 1) # w

\* doc = self.nlp(doc_text); doc.ents
doc_ents(model, doc_text) ==
    LET seen == {w \in DOMAIN model : Contains(doc_text, w)}
        place(w) == Cardinality({v \in seen : FirstIndex(doc_text, v) < FirstIndex(doc_text, w)})
    IN [x \in 1..Cardinality(seen) |->
          LET w == CHOOSE v \in seen : place(v) = x - 1
          IN [text |-> w, label_ |-> model[w]]]

\* (for comparison) the recognizer run on the whole text
party_candidates_whole_text(t, model) ==
    (IF model # None
     THEN LET wanted(e) == e.label_ \in {"ORG", "PERSON"}
              sel == SelectSeq(doc_ents(model, t), wanted)
          IN [x \in 1..Len(sel) |-> sel[x].text]
     ELSE <<>>)
    \o party_matches(t, 1)

party_candidates(t, model) ==
    (IF model # None
     THEN LET wanted(e) == e.label_ \in {"ORG", "PERSON"}
              texts(sel) == [x \in 1..Len(sel) |-> sel[x].text]
          IN texts(SelectSeq(doc_ents(model, Prefix(t, NlpPrefix)), wanted))
     ELSE <<>>)
    \o party_matches(t, 1)

Range(seq) == {seq[x] : x \in 1..Len(seq)}

\* list(set(parties))[:5]: a set iterates in an order the program does not fix,
\* so every arrangement of the distinct candidates is possible
extract_parties_results(t, model) ==
    LET orders(pool, n) == {r \in [1..n -> pool] : \A x, y \in 1..n : x # y => r[x] # r[y]}
        cut(pool) == orders(pool, Min2(MaxParties, Cardinality(pool)))
    IN cut(Range(party_candidates(t, model)))

(***************************************************************************)
(* NLPService.__init__ and NLPService.extract_contract_fields              *)
(***************************************************************************)
\* a loaded model: the names it recognises, with the labels it gives them
Model == [w \in {"Acme Corp", "Beta LLC", "Gamma Inc", "Alice", "Bob", "Paris"} |->
            CASE w \in {"Alice", "Bob"} -> "PERSON"
              [] w = "Paris" -> "GPE"
              [] OTHER -> "ORG"]

\* self.nlp after __init__: the model, or None when spacy.load raised
LoadedModels == {Model, None}

\* (for comparison) the extraction given up at the first field that is absent
extract_contract_fields_short_circuit(t, model) ==
    LET r == extract_renewal_date(t)
        p == IF r = None THEN None ELSE extract_payment_terms(t)
        o == IF p = None THEN <<>> ELSE extract_obligations(t)
        v == IF o = <<>> THEN None ELSE extract_contract_value(t)
    IN {[renewal_date |-> r, payment_terms |-> p, obligations |-> o, total_value |-> v,
         parties |-> q,
         key_dates |-> IF q = <<>> THEN <<>> ELSE extract_all_dates(t)] :
          q \in IF v = None THEN {<<>>} ELSE extract_parties_results(t, model)}

\* the result dicts extract_contract_fields can return: each field is its own
\* extractor's result for the text (parties in any of its orders)
extract_contract_fields_results(t, model) ==
    {[renewal_date |-> extract_renewal_date(t),
      payment_terms |-> extract_payment_terms(t),
      obligations |-> extract_obligations(t),
      total_value |-> extract_contract_value(t),
      parties |-> p,
      key_dates |-> extract_all_dates(t)] : p \in extract_parties_results(t, model)}

(***************************************************************************)
(* CRMService._parse_date and CRMService.unify_customer_data.              *)
(* The source records are dicts of arbitrary values: Dict(items) with      *)
(* items a function from keys to tagged values.                            *)
(***************************************************************************)
Integer(n) == [ty |-> "int", v |-> n]
NaN == [ty |-> "float", v |-> "nan"]
Dict(items) == [ty |-> "dict", items |-> items]
Datetime(year, month, day, hour, minute, second, tz) ==
    [ty |-> "datetime", year |-> year, month |-> month, day |-> day,
     hour |-> hour, minute |-> minute, second |-> second, tz |-> tz]

\* bool(x): what `not x` and `x or y` test
truthy(x) ==
    CASE x.ty = "NoneType" -> FALSE
      [] x.ty = "str" -> x.v # ""
      [] x.ty = "int" -> x.v # 0
      [] x.ty = "float" -> IF x = NaN THEN TRUE ELSE x.hundredths # 0
      [] x.ty = "dict" -> DOMAIN x.items # {}
      [] x.ty = "datetime" -> TRUE

\* str(x)
str(x) ==
    CASE x.ty = "str" -> x.v
      [] x.ty = "int" -> ToString(x.v)
      [] x.ty = "float" -> IF x = NaN THEN "nan"
                           ELSE ToString(x.hundredths \div 100) \o "."
                                \o (IF x.hundredths % 10 = 0
                                    THEN ToString((x.hundredths % 100) \div 10)
                                    ELSE Pad2(x.hundredths % 100))

\* datetime.fromisoformat(s) for the shapes every Python 3 accepts or rejects alike:
\* YYYY-MM-DD, optionally followed by one separator character, HH:MM:SS and
\* optionally an offset +HH:MM or -HH:MM
D2 == Rep(<<Set(Digit)>>, 2, 2)
IsoShape == <<Rep(<<Set(Digit)>>, 4, 4), Lit("-"), D2, Lit("-"), D2,
              Opt(<<NotSet({}), D2, Lit(":"), D2, Lit(":"), D2,
                    Opt(<<Set({"+", "-"}), D2, Lit(":"), D2>>)>>)>>
fromisoformat(s) ==
    LET whole(m) == m.ok /\ m.end = Len(s) + 1
        num(a, b) == int(SubSeq(s, a, b))
        timed == Len(s) >= 19
        zoned == Len(s) = 25
    IN IF ~whole(match(IsoShape, s, FALSE)) THEN ValueError
       ELSE IF \/ num(1, 4) < 1 \/ num(6, 7) \notin 1..12
               \/ num(9, 10) \notin 1..DaysInMonth(num(1, 4), num(6, 7))
               \/ (timed /\ (num(12, 13) > 23 \/ num(15, 16) > 59 \/ num(18, 19) > 59))
               \/ (zoned /\ (num(21, 22) > 23 \/ num(24, 25) > 59))
       THEN ValueError
       ELSE Datetime(num(1, 4), num(6, 7), num(9, 10),
                     IF timed THEN num(12, 13) ELSE 0,
                     IF timed THEN num(15, 16) ELSE 0,
                     IF timed THEN num(18, 19) ELSE 0,
                     IF zoned THEN SubSeq(s, 20, 25) ELSE "")

\* _parse_date without its inner try/except: the failure of the second parse
\* reaches the caller
_parse_date_propagating(x) ==
    IF ~truthy(x) THEN None
    ELSE IF x.ty = "datetime" THEN x
    ELSE LET iso == fromisoformat(replace(str(x), "Z", "+00:00"))
         IN IF ~IsExc(iso) THEN iso
            ELSE LET plain == strptime(str(x), "%Y-%m-%d")
                 IN IF ~IsExc(plain)
                    THEN Datetime(plain.year, plain.month, plain.day, 0, 0, 0, "")
                    ELSE plain

_parse_date(x) ==
    IF ~truthy(x) THEN None
    ELSE IF x.ty = "datetime" THEN x
    ELSE LET second(plain) ==
                 IF ~IsExc(plain)
                 THEN Datetime(plain.year, plain.month, plain.day, 0, 0, 0, "")
                 ELSE None
             first(iso) == IF ~IsExc(iso) THEN iso
                           ELSE second(strptime(str(x), "%Y-%m-%d"))
         IN first(fromisoformat(replace(str(x), "Z", "+00:00")))

\* the canonical fields, in the order of the dict literal, with the key each is
\* read from in the Salesforce record and in the HubSpot record
Fields == <<"account_name", "industry", "annual_revenue", "employee_count",
            "primary_contact", "primary_email", "last_activity_date">>
SalesforceKey == <<"Name", "Industry", "AnnualRevenue", "NumberOfEmployees",
                   "PrimaryContact", "Email", "LastActivityDate">>
HubspotKey == <<"name", "industry", "annualrevenue", "numberofemployees",
                "primary_contact", "email", "notes_last_updated">>

\* d.get(key); on None it raises AttributeError
get(d, key) ==
    IF d = None THEN AttributeError
    ELSE IF key \in DOMAIN d.items THEN d.items[key] ELSE None

\* a.get(ka) or b.get(kb): b.get is evaluated only when a.get(ka) is falsy
get_or_get(a, ka, b, kb) ==
    LET first == get(a, ka)
    IN IF IsExc(first) THEN first
       ELSE IF truthy(first) THEN first
       ELSE get(b, kb)

unify_customer_data(sf, hs) ==
    LET unified_of(value) ==
            IF \E f \in 1..Len(Fields) : IsExc(value[f]) THEN AttributeError
            ELSE [ty |-> "dict",
                  items |-> [name \in Range(Fields) |->
                               LET f == IndexOf(Fields, name)
                               IN IF name = "last_activity_date" THEN _parse_date(value[f])
                                  ELSE value[f]]]
    IN unified_of([f \in 1..Len(Fields) |->
                      get_or_get(sf, SalesforceKey[f], hs, HubspotKey[f])])

(***************************************************************************)
(* The renewal-date extractor as a state machine: a caller holds a         *)
(* contract text (or a date string) and applies the function once.         *)
(* A text is two clauses with a gap of filler between them.                *)
(***************************************************************************)
MaxGap == 1

RenewalDateTokens == {"1/2/2024", "12-31-24", "13/45/2024", "1/2/0999"}

\* a clause carrying date token d that pattern p of extract_renewal_date matches
\* (p = 0: a date that no pattern matches)
RenewalClause(p, d) ==
    CASE p = 0 -> "dated " \o d
      [] p = 1 -> "Renewal Date: " \o d
      [] p = 2 -> "expires on " \o d
      [] p = 3 -> "Term ends by: " \o d
      [] p = 4 -> d \o " renewal"
      [] p = 5 -> "automatically renewed on " \o d
RenewalClauses == {RenewalClause(p, d) : p \in 0..5, d \in RenewalDateTokens} \cup {""}

RECURSIVE Repeat(_, _)
Repeat(s, n) == IF n = 0 THEN "" ELSE s \o Repeat(s, n - 1)

RenewalTexts == {a \o Repeat(". ", g) \o b : a \in RenewalClauses, b \in RenewalClauses,
                                             g \in 0..MaxGap}

\* strings handed to normalize_date
NumericDateStrings ==
    {m \o sep \o d \o sep \o y :
        m \in {"1", "01", "12", "13", "0"}, d \in {"2", "02", "31", "32"},
        y \in {"2024", "24", "69", "0999", "202"}, sep \in {"/", "-"}}
OtherDateStrings ==
    {"", "not a date", " 1/2/2024 ", "1-2/2024", "2024-01-02", "2024-1-2", "2024/01/02",
     "2/29/2023", "2/29/2024", "1/2/68", "1/2/0000",
     "January 5, 2024", "Jan 5, 2024", "5 January 2024", "5 jan 2024",
     "MAY 5, 2024", "Sept 5, 2024", "January  5,  2024", "5 Jan 24",
     "2024-12-31", "2024-02-30", "1000-01-01", "0999-01-02", "0001-12-31"}
NormalizeInputs == NumericDateStrings \cup OtherDateStrings

NoRecords == /\ salesforce_data = Unset /\ hubspot_data = Unset /\ unified = Unset

InitRenewal ==
    /\ payment_terms = Unset /\ NoBackend
    /\ pads_year \in BOOLEAN
    /\ op = "none" /\ NoRecords /\ parsed = Unset
    /\ renewal_date = Unset /\ total_value = Unset /\ key_dates = <<>>
    /\ obligations = <<>> /\ parties = <<>> /\ nlp = None
    /\ \/ text \in RenewalTexts /\ date_str = Unset
       \/ text = "" /\ date_str \in {Str(x) : x \in NormalizeInputs}

ExtractRenewalDate ==
    /\ op = "none" /\ date_str = Unset
    /\ renewal_date' = extract_renewal_date(text)
    /\ op' = "extract_renewal_date"
    /\ UNCHANGED <<backend, payment_terms, pads_year, text, total_value, key_dates, obligations, parties, nlp,
                   salesforce_data, hubspot_data, unified, date_str, parsed>>

NormalizeDate ==
    /\ op = "none" /\ date_str # Unset
    /\ parsed' = normalize_date(date_str.v)
    /\ op' = "normalize_date"
    /\ UNCHANGED <<backend, payment_terms, pads_year, text, renewal_date, total_value, key_dates, obligations, parties, nlp,
                   salesforce_data, hubspot_data, unified, date_str>>

NextRenewal == ExtractRenewalDate \/ NormalizeDate
SpecRenewal == InitRenewal /\ [][NextRenewal]_vars

(***************************************************************************)
(* Claims about the renewal date (checked under SpecRenewal).              *)
(***************************************************************************)
\* the patterns, by their place in the list, that match somewhere in the string
Matching(patterns, s) == {p \in 1..Len(patterns) : search(patterns[p], s, 1, FALSE).ok}
Least(S) == CHOOSE p \in S : \A q \in S : p <= q

\* the date token captured by the first match of pattern p
Token(patterns, p, s) == group(s, search(patterns[p], s, 1, FALSE), 1)

\* C5: extract_renewal_date selects by pattern priority, not by position: the
\* result is the (normalized) date of the lowest-numbered pattern that matches
\* anywhere in the text, and None when no pattern matches.
C5_RenewalByPatternPriority ==
    op = "extract_renewal_date" =>
        LET found == Matching(renewal_patterns, lower(text))
        IN IF found = {} THEN renewal_date = None
           ELSE renewal_date =
                    normalize_date(Token(renewal_patterns, Least(found), lower(text)))

\* pattern 4 matches first in the text, pattern 2 later: the date is pattern 2's
C5_Witness ==
    /\ op = "extract_renewal_date"
    /\ text = "1/2/2024 renewal. expires on 12-31-24"
    /\ renewal_date = Str("2024-12-31")

\* the formats that parse the stripped string, by their place in the list
ParsingFormats(s) == {f \in 1..Len(formats) : ~IsExc(strptime(strip(s), formats[f]))}

\* s is four digits, a dash, two digits, a dash, two digits
IsYMD(s) == /\ Len(s) = 10
            /\ \A x \in 1..10 : IF x \in {5, 8} THEN SubSeq(s, x, x) = "-"
                                ELSE SubSeq(s, x, x) \in Digit

\* C6: when none of the templates parses the input, normalize_date returns the
\* original string verbatim (not None, not an error), so extract_renewal_date
\* returns the matched token unchanged; otherwise it returns the first
\* successful parse, in template order, formatted as YYYY-MM-DD.
C6_NormalizeFallsBackToRawString ==
    /\ op = "normalize_date" =>
          LET ok == ParsingFormats(date_str.v)
              dt == strptime(strip(date_str.v), formats[Least(ok)])
          IN /\ parsed.ty = "str"
             /\ ok = {} => parsed.v = date_str.v
             /\ ok # {} => /\ parsed.v = strftime(dt)
                           /\ IsYMD(parsed.v)
    /\ op = "extract_renewal_date" =>
          LET found == Matching(renewal_patterns, lower(text))
              token == Token(renewal_patterns, Least(found), lower(text))
          IN (found # {} /\ ParsingFormats(token) = {}) => renewal_date = Str(token)

\* s is a date of the calendar written YYYY-MM-DD
IsValidYMD(s) ==
    /\ IsYMD(s)
    /\ LET y == int(SubSeq(s, 1, 4))
           mo == int(SubSeq(s, 6, 7))
           d == int(SubSeq(s, 9, 10))
       IN /\ y >= 1 /\ mo \in 1..12
          /\ d >= 1
          /\ d <= (IF mo = 2 THEN (IF y % 4 = 0 /\ (y % 100 # 0 \/ y % 400 = 0) THEN 29 ELSE 28)
                   ELSE IF mo \in {4, 6, 9, 11} THEN 30 ELSE 31)

\* C19: normalize_date is idempotent: a string that is already a valid date
\* in YYYY-MM-DD form is returned unchanged, and so is every result of a
\* successful normalization when it is normalized again.
C19_NormalizeIdempotent ==
    op = "normalize_date" =>
        /\ IsValidYMD(date_str.v) => parsed = date_str
        /\ ParsingFormats(date_str.v) # {} => normalize_date(parsed.v) = parsed

(***************************************************************************)
(* The value extractor as a state machine: a caller holds a contract text  *)
(* and applies extract_contract_value once.  A text is up to MaxClauses    *)
(* clauses joined by " and a fee of ".                                     *)
(***************************************************************************)
MaxClauses == 2

\* clauses for each pattern, with amounts that parse ("1,200.50", "50", "500",
\* "9.99", "75") and amounts that do not (","), and one without a figure
ValueClauses == {"$1,200.50", "$50", "$,", "USD 75", "Total value: 500",
                 "Total value: $1,200.50", "total amount: ,", "Contract price: $9.99",
                 "no figure"}

RECURSIVE ValueTextsOf(_)
ValueTextsOf(n) ==
    IF n = 0 THEN {""}
    ELSE ValueClauses
         \cup {a \o " and a fee of " \o b : a \in ValueTextsOf(n - 1) \ {""}, b \in ValueClauses}
ValueTexts == UNION {ValueTextsOf(n) : n \in 0..MaxClauses}

InitValue ==
    /\ payment_terms = Unset /\ NoBackend
    /\ pads_year = FALSE  \* no year below 1000 is formatted here
    /\ op = "none" /\ NoRecords /\ parsed = Unset /\ date_str = Unset
    /\ renewal_date = Unset /\ total_value = Unset /\ key_dates = <<>>
    /\ obligations = <<>> /\ parties = <<>> /\ nlp = None
    /\ text \in ValueTexts

ExtractContractValue ==
    /\ op = "none"
    /\ total_value' = extract_contract_value(text)
    /\ op' = "extract_contract_value"
    /\ UNCHANGED <<backend, payment_terms, pads_year, text, renewal_date, key_dates, obligations, parties, nlp,
                   salesforce_data, hubspot_data, unified, date_str, parsed>>

NextValue == ExtractContractValue
SpecValue == InitValue /\ [][NextValue]_vars

(***************************************************************************)
(* Claims about the contract value (checked under SpecValue).              *)
(***************************************************************************)
\* the numeral strings pattern p captures in the string, one per match
Numerals(p, s) == Range(findall(value_patterns[p], s, FALSE))

\* the numerals that are numbers once the separators are stripped
Parses(numeral) == ~float_raises(replace(numeral, ",", ""))

\* the amounts, in hundredths, of the numerals of pattern p that parse
Parsed(p, s) == {float(replace(n, ",", "")) : n \in {x \in Numerals(p, s) : Parses(x)}}

\* the patterns with a match, and the patterns with a match that parses
WithMatch(s) == {p \in 1..Len(value_patterns) : Numerals(p, s) # {}}
WithAmount(s) == {p \in 1..Len(value_patterns) : Parsed(p, s) # {}}

\* C9 as stated: the result depends on the first pattern with a match only,
\* whatever its matches parse to; no later pattern is consulted, so when none
\* of that pattern's matches parses the result is None.
C9_FirstMatchingPatternOnly ==
    op = "extract_contract_value" =>
        LET s == lower(text)
        IN WithMatch(s) # {} =>
              LET amounts == Parsed(Least(WithMatch(s)), s)
              IN IF amounts = {} THEN total_value = None
                 ELSE total_value.ty = "float" /\ total_value.hundredths \in amounts

\* C9 (amended): the patterns are tried in order and the result comes from the
\* first pattern that has a match that parses; a pattern whose matches all
\* fail to parse is passed over, and amounts of different patterns are never
\* merged (an amount of a later pattern is not returned, however large).
C9_FirstParsingPatternOnly ==
    op = "extract_contract_value" =>
        LET s == lower(text)
        IN WithAmount(s) # {} =>
              /\ total_value.ty = "float"
              /\ total_value.hundredths \in Parsed(Least(WithAmount(s)), s)

\* the first pattern's 50 is returned although a later pattern has 500
C9_Witness ==
    /\ op = "extract_contract_value"
    /\ text = "$50 and a fee of Total value: 500"
    /\ total_value = Float(5000)

\* C10: the result is the maximum of the amounts that parse among the matches
\* of the pattern the result is taken from (the first with an amount that
\* parses), matches that fail to parse being skipped; it is None when no
\* pattern matches or no amount parses.  "Total value: $1,200.50 and a fee of
\* $50" gives 1200.50.
C10_MaximumOfParsedAmounts ==
    op = "extract_contract_value" =>
        LET s == lower(text)
        IN /\ WithAmount(s) = {} => total_value = None
           /\ WithAmount(s) # {} =>
                 LET amounts == Parsed(Least(WithAmount(s)), s)
                 IN /\ total_value.ty = "float"
                    /\ total_value.hundredths \in amounts
                    /\ \A a \in amounts : a <= total_value.hundredths
           /\ text = "Total value: $1,200.50 and a fee of $50" => total_value = Float(120050)

\* the larger of two amounts is returned, the smaller coming later in the text
C10_Witness ==
    /\ op = "extract_contract_value"
    /\ text = "Total value: $1,200.50 and a fee of $50"
    /\ total_value = Float(120050)

(***************************************************************************)
(* The list-valued extractors as a state machine: a caller holds a         *)
(* contract text and an NLPService (with or without a loaded spaCy model)  *)
(* and applies extract_all_dates, extract_obligations or extract_parties   *)
(* once.                                                                   *)
(***************************************************************************)
MaxRun == 10
MaxSentences == 11

\* the k-th date of the month, written for pattern p of extract_all_dates
DateToken(p, k) ==
    CASE p = 1 -> "3/" \o ToString(k) \o "/2024"
      [] p = 2 -> ToString(k) \o " March 2024"
      [] p = 3 -> "Mar " \o ToString(k) \o ", 2024"

\* dates k, k+1, ... k+n-1 written for pattern p, each followed by "; "
RECURSIVE DateRun(_, _, _)
DateRun(p, k, n) == IF n = 0 THEN "" ELSE DateToken(p, k) \o "; " \o DateRun(p, k + 1, n - 1)

\* up to two leading dates of any pattern, then a run of dates of one pattern
DateLeads == {""} \cup {DateToken(p, 1) \o "; " : p \in 1..3}
                  \cup {DateToken(p, 1) \o "; " \o DateToken(q, 2) \o "; " : p, q \in 1..3}
DateTexts == {lead \o DateRun(p, 3, n) \o "signed" : lead \in DateLeads, p \in 1..3,
                                                     n \in 0..MaxRun}

\* the i-th of a series of distinct sentences with an obligation keyword
Sentence(i) == " Vendor shall ship lot " \o ToString(i) \o "."
RECURSIVE Sentences(_)
Sentences(n) == IF n = 0 THEN "" ELSE Sentences(n - 1) \o Sentence(n)

\* sentences without a keyword, too short, or said twice, around the series
ObligationLeads == {"", "The sky is blue.", "We must.",
                    "The vendor shall deliver goods. The sky is blue.",
                    " Vendor shall ship lot 1.\nVENDOR SHALL SHIP LOT 1."}
ObligationTexts == {lead \o Sentences(n) \o trail : lead \in ObligationLeads,
                                                    n \in 0..MaxSentences,
                                                    trail \in {"", Sentence(1)}}

\* n characters of filler
RECURSIVE Filler(_)
Filler(n) == IF n = 0 THEN ""
             ELSE IF n % 2 = 1 THEN "x" \o Filler(n - 1)
             ELSE LET half == Filler(n \div 2) IN half \o half

\* sentences at the edges of the accepted lengths (10, 11, 499 and 500
\* characters once trimmed), with and without a keyword
EdgeSentences == {"We must go", "We must run", "The sky is blue", "William agrees",
                  "Vendor shall " \o Filler(486), "Vendor shall " \o Filler(487),
                  "Vendor ships " \o Filler(486)}
EdgeTexts == {" " \o a \o " .\n" \o b \o "." : a \in EdgeSentences,
                                                b \in {"We must run", "The sky is blue"}}

PartyClauses == <<"Agreement between Acme Corp and Beta LLC",
                  "PARTIES: Acme Corp, Beta LLC",
                  "\"Gamma Inc\" (the Company)",
                  "signed by Alice and Bob in Paris">>

\* the chosen clauses, one per line, in their order
RECURSIVE PartyText(_, _)
PartyText(chosen, c) ==
    IF c > Len(PartyClauses) THEN ""
    ELSE (IF c \in chosen THEN PartyClauses[c] \o "\n" ELSE "") \o PartyText(chosen, c + 1)
PartyTexts == {PartyText(chosen, 1) : chosen \in SUBSET (1..Len(PartyClauses))}

\* a text longer than the prefix the recognizer is given: names before and
\* after the 5000th character, and a PARTIES line after it
LongPartyTexts == {"Alice; " \o Filler(5000) \o " Bob\nPARTIES: Gamma Inc\n"}

InitLists ==
    /\ payment_terms = Unset /\ NoBackend
    /\ pads_year = FALSE  \* no year below 1000 is formatted here
    /\ op = "none" /\ NoRecords /\ parsed = Unset /\ date_str = Unset
    /\ renewal_date = Unset /\ total_value = Unset /\ key_dates = <<>>
    /\ obligations = <<>> /\ parties = <<>>
    /\ \/ text \in DateTexts \cup ObligationTexts \cup EdgeTexts /\ nlp = None
       \/ text \in PartyTexts \cup LongPartyTexts /\ nlp \in {None, Model}

ExtractAllDates ==
    /\ op = "none"
    /\ key_dates' = extract_all_dates(text)
    /\ op' = "extract_all_dates"
    /\ UNCHANGED <<backend, payment_terms, pads_year, text, renewal_date, total_value, obligations, parties, nlp,
                   salesforce_data, hubspot_data, unified, date_str, parsed>>

ExtractObligations ==
    /\ op = "none"
    /\ obligations' = extract_obligations(text)
    /\ op' = "extract_obligations"
    /\ UNCHANGED <<backend, payment_terms, pads_year, text, renewal_date, total_value, key_dates, parties, nlp,
                   salesforce_data, hubspot_data, unified, date_str, parsed>>

ExtractParties ==
    /\ op = "none"
    /\ parties' \in extract_parties_results(text, nlp)
    /\ op' = "extract_parties"
    /\ UNCHANGED <<backend, payment_terms, pads_year, text, renewal_date, total_value, key_dates, obligations, nlp,
                   salesforce_data, hubspot_data, unified, date_str, parsed>>

NextLists == ExtractAllDates \/ ExtractObligations \/ ExtractParties
SpecLists == InitLists /\ [][NextLists]_vars

(***************************************************************************)
(* Claims about the list-valued extractors (checked under SpecLists).      *)
(***************************************************************************)
\* every match of every date pattern in the text
AllDateMatches(t) ==
    UNION {LET ms == finditer(date_patterns[p], t, 1, TRUE)
           IN {[p |-> p, m |-> ms[x]] : x \in 1..Len(ms)} : p \in 1..Len(date_patterns)}

\* e comes before f in the text
Before(e, f) == \/ e.m.start < f.m.start
                \/ e.m.start = f.m.start /\ e.p < f.p

\* the matches by position in the text
InDocumentOrder(t) ==
    LET all == AllDateMatches(t)
    IN [k \in 1..Cardinality(all) |->
          CHOOSE e \in all : Cardinality({f \in all : Before(f, e)}) = k - 1]

\* C7: extract_all_dates returns the first 10 matches by position in the
\* text, the matches of the three patterns interleaved in the order they
\* occur and not grouped by pattern.
C7_DatesInDocumentOrder ==
    op = "extract_all_dates" =>
        LET ordered == InDocumentOrder(text)
            n == IF Len(ordered) < 10 THEN Len(ordered) ELSE 10
        IN key_dates = [k \in 1..n |-> date_entry(text, ordered[k].m)]

\* C8: for every text, extract_all_dates returns at most 10 entries,
\* extract_obligations at most 10 and extract_parties at most 5.
C8_ResultSizesBounded ==
    /\ op = "extract_all_dates" => Len(key_dates) <= 10
    /\ op = "extract_obligations" => Len(obligations) <= 10
    /\ op = "extract_parties" => Len(parties) <= 5

\* a text with more than ten dates has given ten
C8_Witness ==
    /\ op = "extract_all_dates"
    /\ Cardinality(AllDateMatches(text)) > 10
    /\ Len(key_dates) = 10

\* the piece holds one of the eight cues, in any letter case
HasCue(piece) ==
    \E cue \in {"shall", "must", "will", "agrees to", "commits to",
                "is responsible for", "undertakes to", "obligated to"} :
        \E i \in 1..(Len(piece) - Len(cue) + 1) :
            lower(SubSeq(piece, i, i + Len(cue) - 1)) = cue

\* the sentences (pieces of the text between its periods) that are accepted
\* as obligations, trimmed, in their order in the text, repeats included
AcceptedSentences(t) ==
    LET pieces == split(t, ".")
        trimmed == [x \in 1..Len(pieces) |-> strip(pieces[x])]
        accepted(x) == /\ Len(trimmed[x]) > 10
                       /\ Len(trimmed[x]) < 500
                       /\ HasCue(pieces[x])
        at == SelectSeq([x \in 1..Len(pieces) |-> x], accepted)
    IN [y \in 1..Len(at) |-> trimmed[at[y]]]

\* C12: extract_obligations accepts a sentence (a piece of the text between
\* periods) exactly when it holds one of the eight cues in any letter case
\* and its trimmed length is strictly between 10 and 500: every obligation
\* returned is such a sentence, trimmed, and while no more than ten distinct
\* ones exist each of them is returned.  "The vendor shall deliver goods.
\* The sky is blue." gives exactly one obligation, the first sentence.
C12_ObligationAcceptedByCueAndLength ==
    op = "extract_obligations" =>
        LET all == Range(AcceptedSentences(text))
        IN /\ Range(obligations) \subseteq all
           /\ Cardinality(all) <= 10 => Range(obligations) = all
           /\ text = "The vendor shall deliver goods. The sky is blue." =>
                  /\ Len(obligations) = 1
                  /\ Contains(obligations[1], "shall deliver goods")

\* a sentence of exactly 10 characters with a cue is left out, one of 11 kept
C12_Witness ==
    /\ op = "extract_obligations"
    /\ text = " We must go .\nWe must run."
    /\ obligations = <<"We must run">>

\* C13: extract_obligations removes repeats before it cuts the list: the
\* result is the first 10 distinct accepted sentences in the order of their
\* first occurrence, no two equal, and a repeat never takes a place.
C13_ObligationsDedupBeforeCut ==
    op = "extract_obligations" =>
        LET acc == AcceptedSentences(text)
            all == Range(acc)
            FirstAt(v) == Least({y \in 1..Len(acc) : acc[y] = v})
            n == IF Cardinality(all) < 10 THEN Cardinality(all) ELSE 10
        IN /\ Len(obligations) = n
           /\ \A j, k \in 1..Len(obligations) : j # k => obligations[j] # obligations[k]
           /\ \A k \in 1..n :
                  /\ obligations[k] \in all
                  /\ Cardinality({v \in all : FirstAt(v) < FirstAt(obligations[k])}) = k - 1

\* a repeat among the first ten accepted sentences, and a later sentence
\* that takes the tenth place
C13_Witness ==
    /\ op = "extract_obligations"
    /\ LET acc == AcceptedSentences(text)
       IN /\ \E j, k \in 1..10 : j < k /\ k <= Len(acc) /\ acc[j] = acc[k]
          /\ Len(obligations) = 10
          /\ \E y \in 11..Len(acc) : acc[y] = obligations[10]

\* the names the recognizer reports in the first 5000 characters and labels
\* ORG or PERSON (none without a recognizer), and the captures of the three
\* patterns anywhere in the text
PartyPool(t, model) ==
    (IF model = None THEN {}
     ELSE {w \in DOMAIN model : /\ model[w] \in {"ORG", "PERSON"}
                                /\ Contains(SubSeq(t, 1, Min2(Len(t), 5000)), w)})
    \cup UNION {Range(findall(party_patterns[p], t, FALSE)) : p \in 1..Len(party_patterns)}

\* C14: extract_parties pools the recognizer's ORG and PERSON names (first
\* 5000 characters) with the captures of the three patterns (whole text),
\* removes duplicates and keeps at most 5: the result has no duplicates, each
\* element is a pooled candidate, and its size is the lesser of 5 and the
\* number of distinct candidates.
C14_PartiesPooledDistinctCapped ==
    op = "extract_parties" =>
        LET pool == PartyPool(text, nlp)
        IN /\ \A j, k \in 1..Len(parties) : j # k => parties[j] # parties[k]
           /\ Range(parties) \subseteq pool
           /\ Len(parties) = (IF Cardinality(pool) < 5 THEN Cardinality(pool) ELSE 5)

\* a name beyond the 5000th character is not pooled; the name before it and
\* the capture after it are
C14_Witness ==
    /\ op = "extract_parties"
    /\ nlp # None
    /\ Len(text) > 5000
    /\ Contains(text, "Bob")
    /\ Range(parties) = {"Alice", "Gamma Inc"}

(***************************************************************************)
(* The service as a state machine: a caller constructs an NLPService       *)
(* (spacy.load succeeds or fails), then asks it for the payment terms of   *)
(* a contract text, or for all of its fields.                              *)
(***************************************************************************)
\* a clause that pattern p of extract_payment_terms matches (0: none does;
\* 7: the first pattern's label with nothing after it)
PaymentClause(p) ==
    CASE p = 0 -> "no terms here"
      [] p = 1 -> "Payment terms: Net 30 days from invoice date"
      [] p = 2 -> "net 45 days"
      [] p = 3 -> "Payment due upon receipt"
      [] p = 4 -> "Quarterly payment"
      [] p = 5 -> "payment yearly"
      [] p = 6 -> "60 days after invoice"
      [] p = 7 -> "Payment Terms: "
PaymentTexts ==
    {PaymentClause(p) \o sep \o PaymentClause(q) \o "." : p \in 0..7, q \in 0..7,
                                                         sep \in {". ", "\n"}}
    \cup {"Payment terms: Net 30 days from invoice date."}

\* clauses that each concern one field of the result
ContractClauses == <<"Agreement between Acme Corp and Beta LLC",
                     "Renewal date: 12-31-24",
                     "Payment terms: Net 30 days",
                     "Total value: $1,200.50",
                     "Vendor shall ship lot 1",
                     "Signed by Alice on 5 March 2024">>

\* the chosen clauses, one per line, in their order
RECURSIVE ContractText(_, _)
ContractText(chosen, c) ==
    IF c > Len(ContractClauses) THEN ""
    ELSE (IF c \in chosen THEN ContractClauses[c] \o ".\n" ELSE "")
         \o ContractText(chosen, c + 1)
ContractTexts == {ContractText(chosen, 1) : chosen \in SUBSET (1..Len(ContractClauses))}

\* the texts given to the service: among them the empty text, a text no
\* pattern matches and a renewal date that no format parses
FieldTexts == PaymentTexts \cup ContractTexts
              \cup {"nothing to extract", "Renewal date: 31/12/2024."}

InitFields ==
    /\ pads_year = FALSE  \* no year below 1000 is formatted here
    /\ op = "none" /\ NoRecords /\ NoBackend /\ parsed = Unset /\ date_str = Unset
    /\ renewal_date = Unset /\ payment_terms = Unset /\ total_value = Unset
    /\ key_dates = <<>> /\ obligations = <<>> /\ parties = <<>>
    /\ nlp = Unset
    /\ text \in FieldTexts

\* NLPService(): spacy.load and pipeline(..) are each called once
NewNLPService ==
    /\ nlp = Unset
    /\ nlp' \in LoadedModels
    /\ loads' = [spacy |-> loads.spacy + 1, pipeline |-> loads.pipeline + 1]
    /\ UNCHANGED <<text, op, renewal_date, total_value, key_dates, obligations, parties,
                   salesforce_data, hubspot_data, unified, date_str, parsed, pads_year,
                   payment_terms, requests, contracts, background_tasks, crm_db>>

ExtractPaymentTerms ==
    /\ op = "none" /\ nlp # Unset
    /\ payment_terms' = extract_payment_terms(text)
    /\ op' = "extract_payment_terms"
    /\ UNCHANGED <<backend, pads_year, text, renewal_date, total_value, key_dates,
                   obligations, parties, nlp, salesforce_data, hubspot_data, unified,
                   date_str, parsed>>

ExtractContractFields ==
    /\ op = "none" /\ nlp # Unset
    /\ \E result \in extract_contract_fields_results(text, nlp) :
          /\ renewal_date' = result.renewal_date
          /\ payment_terms' = result.payment_terms
          /\ obligations' = result.obligations
          /\ total_value' = result.total_value
          /\ parties' = result.parties
          /\ key_dates' = result.key_dates
    /\ op' = "extract_contract_fields"
    /\ UNCHANGED <<backend, pads_year, text, nlp, salesforce_data, hubspot_data, unified,
                   date_str, parsed>>

NextFields == NewNLPService \/ ExtractPaymentTerms \/ ExtractContractFields
SpecFields == InitFields /\ [][NextFields]_vars

(***************************************************************************)
(* Claims about the payment terms and the service (checked under           *)
(* SpecFields).                                                            *)
(***************************************************************************)
\* C11: extract_payment_terms tries its six patterns in order against the
\* lower-cased text and returns the trimmed first group of the first match of
\* the lowest-numbered pattern that matches anywhere in the text, and None
\* when no pattern matches; "Payment terms: Net 30 days from invoice date."
\* gives a string containing "net 30 days from invoice date".
C11_PaymentTermsByPatternPriority ==
    op = "extract_payment_terms" =>
        LET found == Matching(payment_patterns, lower(text))
        IN /\ IF found = {} THEN payment_terms = None
              ELSE payment_terms =
                      Str(strip(Token(payment_patterns, Least(found), lower(text))))
           /\ text = "Payment terms: Net 30 days from invoice date." =>
                 Contains(payment_terms.v, "net 30 days from invoice date")

\* pattern 6 matches first in the text, pattern 4 later: the result is
\* pattern 4's group
C11_Witness ==
    /\ op = "extract_payment_terms"
    /\ text = "60 days after invoice. Quarterly payment."
    /\ payment_terms = Str("quarterly")

\* C15: extract_contract_fields runs its six extractions independently: each
\* field of the result is what its own extractor gives for the text, whether
\* or not any other extractor found nothing, so a field that could not be
\* extracted is absent (None) or empty and the other five hold their values.
C15_FieldsExtractedIndependently ==
    op = "extract_contract_fields" =>
        /\ renewal_date = extract_renewal_date(text)
        /\ payment_terms = extract_payment_terms(text)
        /\ obligations = extract_obligations(text)
        /\ total_value = extract_contract_value(text)
        /\ parties \in extract_parties_results(text, nlp)
        /\ key_dates = extract_all_dates(text)

\* no renewal date and no value found, the other four fields extracted
C15_Witness ==
    /\ op = "extract_contract_fields"
    /\ renewal_date = None /\ total_value = None
    /\ payment_terms = Str("net 30 days")
    /\ obligations = <<"Vendor shall ship lot 1">>
    /\ parties # <<>> /\ key_dates # <<>>

\* the text holds nothing any extractor looks for
NothingToExtract == text \in {"", "nothing to extract"}

\* C16: extraction never raises: for every text, the empty text and a text no
\* pattern matches included, with or without a loaded recognizer, each
\* extractor returns a value, which is absent (None) or empty when it found
\* nothing; without a recognizer the parties are the captures of the
\* patterns alone.
C16_ExtractionNeverRaises ==
    /\ op = "extract_payment_terms" =>
           /\ ~IsExc(payment_terms) /\ payment_terms.ty \in {"NoneType", "str"}
           /\ NothingToExtract => payment_terms = None
    /\ op = "extract_contract_fields" =>
           /\ ~IsExc(renewal_date) /\ renewal_date.ty \in {"NoneType", "str"}
           /\ ~IsExc(payment_terms) /\ payment_terms.ty \in {"NoneType", "str"}
           /\ ~IsExc(total_value) /\ total_value.ty \in {"NoneType", "float"}
           /\ \A k \in 1..Len(key_dates) :
                  ~IsExc(key_dates[k].date) /\ key_dates[k].date.ty = "str"
           /\ nlp = None => Range(parties) \subseteq PartyPool(text, None)
           /\ NothingToExtract =>
                  /\ renewal_date = None /\ payment_terms = None /\ total_value = None
                  /\ obligations = <<>> /\ parties = <<>> /\ key_dates = <<>>

\* without a recognizer, the empty text gave six absent or empty fields
C16_Witness ==
    /\ op = "extract_contract_fields"
    /\ nlp = None /\ text = ""
    /\ renewal_date = None /\ payment_terms = None /\ total_value = None
    /\ obligations = <<>> /\ parties = <<>> /\ key_dates = <<>>

(***************************************************************************)
(* The CRM unifier as a state machine: a caller holds two source records   *)
(* (or a value for the date parser) and applies the function once.         *)
(***************************************************************************)
MaxNumber == 1

\* the values a source record may hold under a key
Values == {None, Str(""), Str("Acme"), Str("Other"), NaN, Float(0)}
          \cup {Integer(n) : n \in 0..MaxNumber}
DateValues == {Str("2024-01-05"), Str("2024-1-5"), Str("2024-01-05T10:00:00Z"),
               Str("not a date"), Datetime(2023, 12, 31, 0, 0, 0, "")}
ValuesOf(f) == IF Fields[f] = "last_activity_date" THEN Values \cup DateValues ELSE Values

\* the records about field f: any values under either vendor's key for it
RecordsAbout(f) ==
    LET keys == {SalesforceKey[f], HubspotKey[f]}
    IN {Dict(items) : items \in UNION {[ks -> ValuesOf(f)] : ks \in SUBSET keys}}

\* records holding a true value under every key of one vendor
FullRecords == {Dict([k \in Range(SalesforceKey) |-> Str("2024-01-05")]),
                Dict([k \in Range(HubspotKey) |-> Str("2024-01-05")])}

\* strings handed to _parse_date: year, month, day and what follows them
DateYears == {"2024", "24", "0000"}
DateMonths == {"01", "1", "13"}
DateDays == {"05", "5", "31", "32"}
DateTails == {"", "T10:00:00", "T10:00:00Z", "T10:00:00+05:30", " 10:00:00",
              "T25:00:00", " and more"}
DateStrings ==
    {y \o sep \o m \o sep \o d \o tail :
        y \in DateYears, sep \in {"-", "/"}, m \in DateMonths, d \in DateDays,
        tail \in DateTails}
ParseDateInputs == {Str(x) : x \in DateStrings} \cup Values \cup DateValues

Idle == /\ text = "" /\ renewal_date = Unset /\ total_value = Unset /\ key_dates = <<>>
        /\ obligations = <<>> /\ parties = <<>> /\ nlp = None

InitUnify ==
    /\ payment_terms = Unset /\ NoBackend
    /\ pads_year = FALSE  \* no year below 1000 is formatted here
    /\ op = "none" /\ Idle /\ unified = Unset /\ parsed = Unset
    /\ \/ /\ date_str = Unset
          /\ \E f \in 1..Len(Fields) :
                /\ salesforce_data \in RecordsAbout(f) \cup FullRecords \cup {None}
                /\ hubspot_data \in RecordsAbout(f) \cup FullRecords \cup {None}
       \/ /\ date_str \in ParseDateInputs
          /\ salesforce_data = Unset /\ hubspot_data = Unset

Unify ==
    /\ op = "none" /\ date_str = Unset
    /\ unified' = unify_customer_data(salesforce_data, hubspot_data)
    /\ op' = "unify_customer_data"
    /\ UNCHANGED <<backend, payment_terms, pads_year, text, renewal_date, total_value, key_dates, obligations, parties, nlp,
                   salesforce_data, hubspot_data, date_str, parsed>>

ParseDate ==
    /\ op = "none" /\ date_str # Unset
    /\ parsed' = _parse_date(date_str)
    /\ op' = "_parse_date"
    /\ UNCHANGED <<backend, payment_terms, pads_year, text, renewal_date, total_value, key_dates, obligations, parties, nlp,
                   salesforce_data, hubspot_data, unified, date_str>>

NextUnify == Unify \/ ParseDate
SpecUnify == InitUnify /\ [][NextUnify]_vars

(***************************************************************************)
(* Claims about the CRM unifier (checked under SpecUnify).                 *)
(***************************************************************************)
Unified == op = "unify_customer_data"
BothRecords == salesforce_data # None /\ hubspot_data # None

\* "present": non-null, non-empty string, non-NaN number
Present(x) == /\ x.ty # "NoneType"
              /\ ~(x.ty = "str" /\ x.v = "")
              /\ ~(x.ty = "float" /\ x = NaN)

\* the value the precedence rule gives field f: the primary record's when it
\* is present, otherwise the secondary's when it is present, otherwise absent
PrimaryFirst(f) ==
    LET a == get(salesforce_data, SalesforceKey[f])
        b == get(hubspot_data, HubspotKey[f])
    IN IF Present(a) THEN a ELSE IF Present(b) THEN b ELSE None

IsDateField(f) == Fields[f] = "last_activity_date"

\* C1: for every pair of source records and every canonical field, unify gives
\* the primary record's value when it is present, otherwise the secondary
\* record's value when it is present, otherwise absent (the date field passed
\* through the date parser).
C1_PrimaryFirstPerField ==
    (Unified /\ BothRecords) =>
        \A f \in 1..Len(Fields) :
            unified.items[Fields[f]] =
                IF IsDateField(f) THEN _parse_date(PrimaryFirst(f)) ELSE PrimaryFirst(f)

IsZero(x) == (x.ty = "int" /\ x.v = 0) \/ (x.ty = "float" /\ x = Float(0))

\* C2: a numeric zero in the primary record counts as present: unify returns it
\* in preference to any value of the secondary record.
C2_PrimaryZeroIsReturned ==
    (Unified /\ BothRecords) =>
        \A f \in 1..Len(Fields) :
            (~IsDateField(f) /\ IsZero(get(salesforce_data, SalesforceKey[f])))
                => unified.items[Fields[f]] = get(salesforce_data, SalesforceKey[f])

\* every field taken from the one record `rec`, read with the keys `key`
AllFrom(rec, key) ==
    /\ ~IsExc(unified)
    /\ \A f \in 1..Len(Fields) :
          unified.items[Fields[f]] =
              IF IsDateField(f) THEN _parse_date(get(rec, key[f])) ELSE get(rec, key[f])

\* C3: unify tolerates a None source record in either position: with the primary
\* None every field comes from the secondary, with the secondary None every field
\* comes from the primary, and unify does not raise.
C3_NoneRecordTolerated ==
    Unified =>
        /\ (salesforce_data = None \/ hubspot_data = None) => ~IsExc(unified)
        /\ (salesforce_data = None /\ hubspot_data # None) => AllFrom(hubspot_data, HubspotKey)
        /\ (hubspot_data = None /\ salesforce_data # None) => AllFrom(salesforce_data, SalesforceKey)

\* the strings of DateStrings that are dates: ISO-8601 (zero-padded, with or
\* without a time, a trailing Z or an offset), or plain year-month-day
IsoDateStrings ==
    {"2024-01-" \o d \o tail : d \in {"05", "31"},
        tail \in {"", "T10:00:00", "T10:00:00Z", "T10:00:00+05:30", " 10:00:00"}}
PlainDateStrings == {"2024-" \o m \o "-" \o d : m \in {"01", "1"}, d \in {"05", "5", "31"}}

\* C4: _parse_date never raises: every input gives a parsed date or None; a
\* string is parsed exactly when it is ISO-8601 (a trailing Z read as UTC) or
\* plain YYYY-MM-DD, and every unparsable or empty input gives None.
C4_ParseDateNeverRaises ==
    op = "_parse_date" =>
        /\ ~IsExc(parsed)
        /\ parsed = None \/ parsed.ty = "datetime"
        /\ date_str.ty = "datetime" => parsed = date_str
        /\ date_str.ty \notin {"str", "datetime"} => parsed = None
        /\ date_str.ty = "str" =>
              /\ parsed # None <=> date_str.v \in IsoDateStrings \cup PlainDateStrings
              /\ parsed # None =>
                    /\ parsed.year = 2024 /\ parsed.month = 1
                    /\ parsed.day = (IF Contains(date_str.v, "31") THEN 31 ELSE 5)
                    /\ parsed.hour = (IF Contains(date_str.v, "10:00:00") THEN 10 ELSE 0)
                    /\ Contains(date_str.v, "Z") => parsed.tz = "+00:00"

\* an unparsable string has been given to _parse_date, which returned None
C4_Witness ==
    /\ op = "_parse_date"
    /\ date_str = Str("2024/13/32 and more")
    /\ parsed = None

(***************************************************************************)
(* parse_document.  The libraries that open PDF, DOCX and Excel files are  *)
(* outside the repository: an uploaded file is held as the text it carries *)
(* and whether its library can open it (a damaged file raises there).      *)
(***************************************************************************)
endswith(s, suffix) ==
    /\ Len(s) >= Len(suffix)
    /\ SubSeq(s, Len(s) - Len(suffix) + 1, Len(s)) = suffix

\* a document of one page: its text and a newline
parse_pdf(file_content) == IF file_content.damaged THEN "" ELSE file_content.text \o "\n"
parse_docx(file_content) == IF file_content.damaged THEN "" ELSE file_content.text
parse_excel(file_content) == IF file_content.damaged THEN "" ELSE file_content.text

parse_document(file_content, filename) ==
    LET name == lower(filename)
    IN IF endswith(name, ".pdf") THEN parse_pdf(file_content)
       ELSE IF endswith(name, ".docx") \/ endswith(name, ".doc") THEN parse_docx(file_content)
       ELSE IF endswith(name, ".xlsx") \/ endswith(name, ".xls") THEN parse_excel(file_content)
       ELSE IF endswith(name, ".txt") THEN file_content.text
       ELSE ""

(***************************************************************************)
(* The contracts router: upload_contract and reparse_contract.             *)
(* upload_contract is a coroutine of the event loop: after its one await   *)
(* it runs to its end before another coroutine does.  reparse_contract is  *)
(* a plain function, which the framework runs on a worker thread, so its   *)
(* steps interleave with every other request's.  A request is held with    *)
(* its position (pc), its locals (text, nlp) and, once it is done, its     *)
(* response.  The contracts table may hold rows from before.               *)
(***************************************************************************)
MaxRequests == 2

HTTPException(status_code, detail) ==
    [status_code |-> status_code, body |-> [detail |-> detail]]

\* an exception that leaves the handler: the framework answers 500
InternalServerError == HTTPException(500, "Internal Server Error")

\* datetime.timezone.utc(): datetime is the class datetime.datetime here,
\* which has no attribute timezone
timezone_utc == AttributeError

\* contract.renewal_date after "Parse renewal date if found"
parsed_renewal_date(extracted_fields, before) ==
    IF truthy(extracted_fields.renewal_date)
    THEN LET parsed_as(dt) == IF IsExc(dt) THEN before ELSE dt
         IN parsed_as(fromisoformat(extracted_fields.renewal_date.v))
    ELSE before

UploadedText == "Renewal date: 12-31-24.\nVendor shall ship lot 1.\n"
StoredText == "Renewal date: 31/12/2024.\nPayment terms: Net 30 days.\n"

NoFile == [filename |-> "", content |-> [text |-> "", damaged |-> FALSE]]
Files == {[filename |-> "contract.txt", content |-> [text |-> UploadedText, damaged |-> FALSE]],
          [filename |-> "terms.txt", content |-> [text |-> StoredText, damaged |-> FALSE]],
          [filename |-> "notes.md", content |-> [text |-> UploadedText, damaged |-> FALSE]],
          [filename |-> "Scan.PDF", content |-> [text |-> StoredText, damaged |-> TRUE]]}

\* rows from before: one with a text and fields of an earlier parse, one
\* without a text
StoredContracts ==
    << [id |-> 1, title |-> "old.txt", raw_text |-> Str(StoredText), parsed_data |-> None,
        obligations |-> <<"old obligation">>, payment_terms |-> Str("old terms"),
        total_value |-> Float(100), renewal_date |-> Datetime(2023, 1, 1, 0, 0, 0, ""),
        status |-> "active"],
       [id |-> 2, title |-> "bare", raw_text |-> None, parsed_data |-> None,
        obligations |-> <<>>, payment_terms |-> None, total_value |-> None,
        renewal_date |-> None, status |-> "active"] >>

NewRequests ==
    {[kind |-> "upload_contract", file |-> f, contract_id |-> 0, pc |-> "start",
      text |-> "", nlp |-> Unset, response |-> Unset] : f \in Files}
    \cup {[kind |-> "reparse_contract", file |-> NoFile, contract_id |-> id, pc |-> "start",
           text |-> "", nlp |-> Unset, response |-> Unset] : id \in 1..3}

RECURSIVE RequestSeqs(_)
RequestSeqs(n) ==
    IF n = 0 THEN {<<>>}
    ELSE {Append(s, r) : s \in RequestSeqs(n - 1), r \in NewRequests}

InitContracts ==
    /\ pads_year = FALSE  \* no year below 1000 is formatted here
    /\ op = "none" /\ NoRecords /\ parsed = Unset /\ date_str = Unset
    /\ renewal_date = Unset /\ payment_terms = Unset /\ total_value = Unset
    /\ key_dates = <<>> /\ obligations = <<>> /\ parties = <<>>
    /\ nlp = Unset /\ text = ""
    /\ loads = [spacy |-> 0, pipeline |-> 0]
    /\ background_tasks = <<>>
    /\ crm_db = [customers |-> <<>>, crm_records |-> <<>>]
    /\ contracts = StoredContracts
    /\ requests \in UNION {RequestSeqs(n) : n \in 1..MaxRequests}

Done(r, response) == [requests EXCEPT ![r].pc = "done", ![r].nlp = Unset,
                                      ![r].response = response]

\* the event loop is inside another upload_contract, past its await
LoopBusy(r) ==
    \E q \in DOMAIN requests : /\ q # r
                               /\ requests[q].kind = "upload_contract"
                               /\ requests[q].pc \in {"construct", "extract"}

\* content = await file.read(); text = parse_document(..); if not text: 400
UploadParse(r) ==
    /\ requests[r].kind = "upload_contract" /\ requests[r].pc = "start"
    /\ ~LoopBusy(r)
    /\ LET decoded == parse_document(requests[r].file.content, requests[r].file.filename)
       IN requests' =
            IF decoded = "" THEN Done(r, HTTPException(400, "Could not extract text from file"))
            ELSE [requests EXCEPT ![r].pc = "construct", ![r].text = decoded]
    /\ UNCHANGED <<text, op, renewal_date, total_value, key_dates, obligations, parties, nlp,
                   salesforce_data, hubspot_data, unified, date_str, parsed, pads_year,
                   payment_terms, loads, contracts, background_tasks, crm_db>>

\* nlp_service = NLPService(), in either handler
ConstructService(r) ==
    /\ requests[r].pc = "construct"
    /\ \E model \in LoadedModels :
          requests' = [requests EXCEPT ![r].pc = "extract", ![r].nlp = model]
    /\ loads' = [spacy |-> loads.spacy + 1, pipeline |-> loads.pipeline + 1]
    /\ UNCHANGED <<text, op, renewal_date, total_value, key_dates, obligations, parties, nlp,
                   salesforce_data, hubspot_data, unified, date_str, parsed, pads_year,
                   payment_terms, contracts, background_tasks, crm_db>>

\* the rest of upload_contract: the extraction, the Contract, the commit and
\* the response
UploadStore(r) ==
    /\ requests[r].kind = "upload_contract" /\ requests[r].pc = "extract"
    /\ \E extracted_fields \in extract_contract_fields_results(requests[r].text, requests[r].nlp) :
          IF IsExc(timezone_utc)
          THEN /\ requests' = Done(r, InternalServerError)
               /\ UNCHANGED contracts
          ELSE LET contract ==
                     [id |-> Len(contracts) + 1, title |-> requests[r].file.filename,
                      raw_text |-> Str(requests[r].text), parsed_data |-> extracted_fields,
                      obligations |-> extracted_fields.obligations,
                      payment_terms |-> extracted_fields.payment_terms,
                      total_value |-> extracted_fields.total_value,
                      renewal_date |-> parsed_renewal_date(extracted_fields, None),
                      status |-> "active"]
               IN /\ contracts' = Append(contracts, contract)
                  /\ requests' = Done(r, [status_code |-> 200,
                                          body |-> [id |-> contract.id,
                                                    message |-> "Contract uploaded and parsed successfully",
                                                    parsed_fields |-> extracted_fields]])
    /\ UNCHANGED <<text, op, renewal_date, total_value, key_dates, obligations, parties, nlp,
                   salesforce_data, hubspot_data, unified, date_str, parsed, pads_year,
                   payment_terms, loads, background_tasks, crm_db>>

\* reparse_contract up to its two early exits
ReparseLoad(r) ==
    /\ requests[r].kind = "reparse_contract" /\ requests[r].pc = "start"
    /\ LET found == {c \in DOMAIN contracts : contracts[c].id = requests[r].contract_id}
       IN requests' =
            IF found = {} THEN Done(r, HTTPException(404, "Contract not found"))
            ELSE LET contract == contracts[CHOOSE c \in found : TRUE]
                 IN IF ~truthy(contract.raw_text)
                    THEN Done(r, HTTPException(400, "No text available for parsing"))
                    ELSE [requests EXCEPT ![r].pc = "construct",
                                          ![r].text = contract.raw_text.v]
    /\ UNCHANGED <<text, op, renewal_date, total_value, key_dates, obligations, parties, nlp,
                   salesforce_data, hubspot_data, unified, date_str, parsed, pads_year,
                   payment_terms, loads, contracts, background_tasks, crm_db>>

\* the rest of reparse_contract: the extraction, the update of the row, the
\* commit and the response
ReparseStore(r) ==
    /\ requests[r].kind = "reparse_contract" /\ requests[r].pc = "extract"
    /\ \E extracted_fields \in extract_contract_fields_results(requests[r].text, requests[r].nlp) :
          LET c == CHOOSE x \in DOMAIN contracts : contracts[x].id = requests[r].contract_id
          IN /\ contracts' =
                  [contracts EXCEPT ![c].parsed_data = extracted_fields,
                                    ![c].obligations = extracted_fields.obligations,
                                    ![c].payment_terms = extracted_fields.payment_terms,
                                    ![c].total_value = extracted_fields.total_value,
                                    ![c].renewal_date =
                                        parsed_renewal_date(extracted_fields, contracts[c].renewal_date)]
             /\ requests' = Done(r, [status_code |-> 200,
                                     body |-> [message |-> "Contract re-parsed successfully",
                                               parsed_fields |-> extracted_fields]])
    /\ UNCHANGED <<text, op, renewal_date, total_value, key_dates, obligations, parties, nlp,
                   salesforce_data, hubspot_data, unified, date_str, parsed, pads_year,
                   payment_terms, loads, background_tasks, crm_db>>

NextContracts ==
    \E r \in DOMAIN requests :
        \/ UploadParse(r) \/ ConstructService(r) \/ UploadStore(r)
        \/ ReparseLoad(r) \/ ReparseStore(r)
SpecContracts == InitContracts /\ [][NextContracts]_vars

(***************************************************************************)
(* Claims about the contracts router (checked under SpecContracts).        *)
(***************************************************************************)
\* C17: across any sequence and interleaving of upload_contract and
\* reparse_contract requests in one process, the entity recognizer and the
\* language model are each constructed at most once.
C17_ModelsConstructedAtMostOnce ==
    /\ loads.spacy <= 1
    /\ loads.pipeline <= 1

\* C20: when parse_document returns the empty string for an uploaded file,
\* upload_contract treats it as nothing extractable and does not answer
\* with an error.
C20_EmptyTextIsNotAnError ==
    \A r \in DOMAIN requests :
        (/\ requests[r].kind = "upload_contract"
         /\ requests[r].pc = "done"
         /\ parse_document(requests[r].file.content, requests[r].file.filename) = "")
        => requests[r].response.status_code < 400

\* the extraction of request r finds no renewal date, or one that
\* datetime.fromisoformat refuses
NoIsoRenewalDate(r) ==
    \A f \in extract_contract_fields_results(requests[r].text, requests[r].nlp) :
        \/ ~truthy(f.renewal_date)
        \/ IsExc(fromisoformat(f.renewal_date.v))

\* the row of contract c carries the lists and values of the extraction
Overwritten(c, f) ==
    /\ contracts'[c].parsed_data = f
    /\ contracts'[c].obligations = f.obligations
    /\ contracts'[c].payment_terms = f.payment_terms
    /\ contracts'[c].total_value = f.total_value

\* C23: when the extraction of upload_contract or reparse_contract finds no
\* renewal date, or one that is not an ISO string, the request does not
\* fail and the stored renewal_date stays as it was (unset in a new
\* contract), while obligations, payment_terms and total_value are set from
\* the extraction.
C23_UnparsedRenewalDateLeftAlone ==
    [][\A r \in DOMAIN requests :
          (requests[r].pc = "extract" /\ requests'[r].pc = "done" /\ NoIsoRenewalDate(r))
          => /\ requests'[r].response.status_code = 200
             /\ IF requests[r].kind = "reparse_contract"
                THEN \E c \in DOMAIN contracts :
                        /\ contracts[c].id = requests[r].contract_id
                        /\ contracts'[c].renewal_date = contracts[c].renewal_date
                        /\ Overwritten(c, requests'[r].response.body.parsed_fields)
                ELSE /\ Len(contracts') = Len(contracts) + 1
                     /\ contracts'[Len(contracts')].renewal_date = None
                     /\ Overwritten(Len(contracts'), requests'[r].response.body.parsed_fields)]_vars

\* C24: an upload_contract whose file decodes to a non-empty text answers
\* with success, and the table holds exactly one new contract for it: its id
\* and the extracted fields are those of the response, its status is
\* "active" and its raw_text is the decoded text.
C24_UploadPersistsOneContract ==
    \A r \in DOMAIN requests :
        (/\ requests[r].kind = "upload_contract"
         /\ requests[r].pc = "done"
         /\ parse_document(requests[r].file.content, requests[r].file.filename) # "")
        => /\ requests[r].response.status_code = 200
           /\ Cardinality({c \in DOMAIN contracts :
                  /\ contracts[c].id = requests[r].response.body.id
                  /\ contracts[c].status = "active"
                  /\ contracts[c].raw_text =
                        Str(parse_document(requests[r].file.content, requests[r].file.filename))
                  /\ contracts[c].parsed_data = requests[r].response.body.parsed_fields}) = 1
           /\ Len(contracts) = Len(StoredContracts)
                + Cardinality({q \in DOMAIN requests :
                      /\ requests[q].kind = "upload_contract" /\ requests[q].pc = "done"
                      /\ requests[q].response.status_code = 200})

(***************************************************************************)
(* The CRM router: sync_crm and its background task perform_crm_sync.      *)
(* The vendors are outside the repository: a client's sync() raises (no    *)
(* credentials, a refused login, no network) or returns what it fetched.   *)
(* The tables hold what has been committed; the clock is one fixed         *)
(* instant.  A task is held with its position: queued by sync_crm,         *)
(* fetched once the vendors have answered, done once perform_crm_sync has  *)
(* returned, with the exception its except clause caught, if any.  Tasks   *)
(* run on worker threads, each with the session of its request: between    *)
(* fetched and done a task is queried, once its session has read the       *)
(* tables, and what it adds is committed in a later step.                  *)
(***************************************************************************)
Sources == {"all", "salesforce", "hubspot"}

SalesforceResults == {[accounts |-> <<>>],
                      [accounts |-> <<[Id |-> "001", Name |-> "Acme Corp"]>>]}
HubSpotResults == {[companies |-> <<>>],
                   [companies |-> <<[id |-> "77", properties |-> [name |-> "Beta LLC"]],
                                   [id |-> "78", properties |-> [name |-> "Beta LLC"]]>>]}

\* client.sync(): what it fetched, or the exception it raised
SalesforceOutcomes == SalesforceResults \cup {ValueError}
HubSpotOutcomes == HubSpotResults \cup {ValueError}

\* CRMService.sync_all for one outcome of each client
sync_all(sf, hs) ==
    [salesforce |-> IF IsExc(sf) THEN None ELSE sf,
     hubspot |-> IF IsExc(hs) THEN None ELSE hs,
     errors |-> (IF IsExc(sf) THEN <<"Salesforce sync error">> ELSE <<>>)
                \o (IF IsExc(hs) THEN <<"HubSpot sync error">> ELSE <<>>)]

utcnow == Datetime(2024, 6, 1, 12, 0, 0, "")

\* the body of the loop of process_salesforce_results and of
\* process_hubspot_results: find or create the customer (a second customer
\* with the same email is refused at the flush), find or create the record
\* of the source, set its fields
upsert(db, source, source_id, name, email, synced_at) ==
    LET named == {c \in DOMAIN db.customers : db.customers[c].name = name}
        customers == IF named # {} THEN db.customers
                     ELSE Append(db.customers, [id |-> Len(db.customers) + 1,
                                                name |-> name, email |-> email])
        customer == customers[IF named # {} THEN Least(named) ELSE Len(customers)]
        held == {x \in DOMAIN db.crm_records : /\ db.crm_records[x].source = source
                                               /\ db.crm_records[x].source_id = source_id}
        crm_record == [id |-> IF held # {} THEN db.crm_records[Least(held)].id
                              ELSE Len(db.crm_records) + 1,
                       customer_id |-> IF held # {} THEN db.crm_records[Least(held)].customer_id
                                       ELSE customer.id,
                       source |-> source, source_id |-> source_id,
                       account_name |-> name, synced_at |-> synced_at]
    IN IF named = {} /\ \E c \in DOMAIN db.customers : db.customers[c].email = email
       THEN IntegrityError
       ELSE IF IsExc(synced_at) THEN synced_at
       ELSE [customers |-> customers,
             crm_records |-> IF held # {} THEN [db.crm_records EXCEPT ![Least(held)] = crm_record]
                             ELSE Append(db.crm_records, crm_record)]

\* the tables after the commit, or the exception that ended the loop
RECURSIVE process_salesforce_results(_, _)
process_salesforce_results(data, db) ==
    IF Len(data.accounts) = 0 THEN db
    ELSE LET account == Head(data.accounts)
             next(after) == IF IsExc(after) THEN after
                            ELSE process_salesforce_results([accounts |-> Tail(data.accounts)], after)
         IN next(upsert(db, "salesforce", account.Id, account.Name,
                        account.Id \o "@salesforce.com", timezone_utc))

RECURSIVE process_hubspot_results(_, _)
process_hubspot_results(data, db) ==
    IF Len(data.companies) = 0 THEN db
    ELSE LET company == Head(data.companies)
             next(after) == IF IsExc(after) THEN after
                            ELSE process_hubspot_results([companies |-> Tail(data.companies)], after)
         IN next(upsert(db, "hubspot", company.id, company.properties.name,
                        company.id \o "@hubspot.com", utcnow))

\* process_sync_results: HubSpot's results are processed after Salesforce's,
\* unless processing those raised
process_sync_results(results, db) ==
    LET then_hubspot(after) ==
            IF IsExc(after) \/ results.hubspot = None THEN after
            ELSE process_hubspot_results(results.hubspot, after)
    IN then_hubspot(IF results.salesforce = None THEN db
                    ELSE process_salesforce_results(results.salesforce, db))

NoResults == [salesforce |-> None, hubspot |-> None, errors |-> <<>>]
NoTables == [customers |-> <<>>, crm_records |-> <<>>]

\* db.commit() of a session that read the tables as seen and made them after:
\* the rows it added are inserted into the tables as they are now, with the
\* next ids, and the rows it changed are updated; a customer whose email
\* another session has stored meanwhile is refused
commit(db, seen, after) ==
    LET shift == Len(db.customers) - Len(seen.customers)
        moved(id) == IF id > Len(seen.customers) THEN id + shift ELSE id
        added_customers == SubSeq(after.customers, Len(seen.customers) + 1, Len(after.customers))
        added_records == SubSeq(after.crm_records, Len(seen.crm_records) + 1,
                                Len(after.crm_records))
        updated(x) == IF x <= Len(seen.crm_records) /\ after.crm_records[x] # seen.crm_records[x]
                      THEN after.crm_records[x] ELSE db.crm_records[x]
    IN IF \E a \in DOMAIN added_customers, c \in DOMAIN db.customers :
             db.customers[c].email = added_customers[a].email
       THEN IntegrityError
       ELSE [customers |-> db.customers \o
                 [a \in DOMAIN added_customers |->
                     [added_customers[a] EXCEPT !.id = moved(added_customers[a].id)]],
             crm_records |-> [x \in DOMAIN db.crm_records |-> updated(x)] \o
                 [a \in DOMAIN added_records |->
                     [added_records[a] EXCEPT !.id = Len(db.crm_records) + a,
                                              !.customer_id = moved(added_records[a].customer_id)]]]

\* the tables before the first request: empty, or as an earlier sync has left
\* them, when HubSpot held company 77 only
EarlierSyncs == {NoTables,
                 process_hubspot_results(
                     [companies |-> <<[id |-> "77", properties |-> [name |-> "Beta LLC"]]>>],
                     NoTables)}

InitSync ==
    /\ pads_year = FALSE  \* no year below 1000 is formatted here
    /\ op = "none" /\ NoRecords /\ parsed = Unset /\ date_str = Unset
    /\ renewal_date = Unset /\ payment_terms = Unset /\ total_value = Unset
    /\ key_dates = <<>> /\ obligations = <<>> /\ parties = <<>>
    /\ nlp = Unset /\ text = ""
    /\ requests = <<>> /\ loads = [spacy |-> 0, pipeline |-> 0]
    /\ contracts = <<>> /\ background_tasks = <<>>
    /\ crm_db \in EarlierSyncs

\* (for comparison) sync_crm running the sync itself and answering with how
\* it went
SyncCrmAwaited(source, full_sync) ==
    /\ Len(requests) < MaxRequests
    /\ \E status \in {"completed", "failed"} :
          requests' = Append(requests,
              [kind |-> "sync_crm", source |-> source, full_sync |-> full_sync,
               response |-> [status_code |-> 200,
                             body |-> [message |-> "CRM sync initiated for " \o source,
                                       status |-> status]]])
    /\ background_tasks' = Append(background_tasks,
          [source |-> source, full_sync |-> full_sync, pc |-> "done",
           results |-> NoResults, seen |-> NoTables, caught |-> None])
    /\ UNCHANGED <<text, op, renewal_date, total_value, key_dates, obligations, parties, nlp,
                   salesforce_data, hubspot_data, unified, date_str, parsed, pads_year,
                   payment_terms, loads, contracts, crm_db>>

\* sync_crm: background_tasks.add_task(perform_crm_sync, ..) and the response
SyncCrm(source, full_sync) ==
    /\ Len(requests) < MaxRequests
    /\ background_tasks' = Append(background_tasks,
          [source |-> source, full_sync |-> full_sync, pc |-> "queued",
           results |-> NoResults, seen |-> NoTables, caught |-> None])
    /\ requests' = Append(requests,
          [kind |-> "sync_crm", source |-> source, full_sync |-> full_sync,
           response |-> [status_code |-> 200,
                         body |-> [message |-> "CRM sync initiated for " \o source,
                                   status |-> "processing"]]])
    /\ UNCHANGED <<text, op, renewal_date, total_value, key_dates, obligations, parties, nlp,
                   salesforce_data, hubspot_data, unified, date_str, parsed, pads_year,
                   payment_terms, loads, contracts, crm_db>>

\* perform_crm_sync up to the vendors' answers: sync_all() never raises, a
\* single client's sync() may, which ends the task in the except clause
FetchCrm(t) ==
    /\ background_tasks[t].pc = "queued"
    /\ \E sf \in SalesforceOutcomes, hs \in HubSpotOutcomes :
          LET source == background_tasks[t].source
              raised == IF source = "salesforce" THEN sf
                        ELSE IF source = "hubspot" THEN hs ELSE None
              results == IF source = "all" THEN sync_all(sf, hs)
                         ELSE IF source = "salesforce"
                         THEN [NoResults EXCEPT !.salesforce = sf]
                         ELSE [NoResults EXCEPT !.hubspot = hs]
          IN background_tasks' =
                IF IsExc(raised)
                THEN [background_tasks EXCEPT ![t].pc = "done", ![t].caught = raised]
                ELSE [background_tasks EXCEPT ![t].pc = "fetched", ![t].results = results]
    /\ UNCHANGED <<text, op, renewal_date, total_value, key_dates, obligations, parties, nlp,
                   salesforce_data, hubspot_data, unified, date_str, parsed, pads_year,
                   payment_terms, requests, loads, contracts, crm_db>>

\* the queries of the processing loops: the session of the task reads the
\* tables as they are committed now
QueryCrm(t) ==
    /\ background_tasks[t].pc = "fetched"
    /\ background_tasks' = [background_tasks EXCEPT ![t].pc = "queried", ![t].seen = crm_db]
    /\ UNCHANGED <<text, op, renewal_date, total_value, key_dates, obligations, parties, nlp,
                   salesforce_data, hubspot_data, unified, date_str, parsed, pads_year,
                   payment_terms, requests, loads, contracts, crm_db>>

\* the rest of perform_crm_sync: the results are processed against what the
\* session read, and committed; an exception on the way is caught and
\* printed, and nothing of that run is committed after it
StoreCrm(t) ==
    /\ background_tasks[t].pc = "queried"
    /\ LET stored(after) == IF IsExc(after) THEN after
                            ELSE commit(crm_db, background_tasks[t].seen, after)
           ended(now) ==
               /\ crm_db' = IF IsExc(now) THEN crm_db ELSE now
               /\ background_tasks' =
                     [background_tasks EXCEPT ![t].pc = "done", ![t].results = NoResults,
                                              ![t].seen = NoTables,
                                              ![t].caught = IF IsExc(now) THEN now ELSE None]
       IN ended(stored(process_sync_results(background_tasks[t].results,
                                            background_tasks[t].seen)))
    /\ UNCHANGED <<text, op, renewal_date, total_value, key_dates, obligations, parties, nlp,
                   salesforce_data, hubspot_data, unified, date_str, parsed, pads_year,
                   payment_terms, requests, loads, contracts>>

NextSync ==
    \/ \E source \in Sources, full_sync \in BOOLEAN : SyncCrm(source, full_sync)
    \/ \E t \in DOMAIN background_tasks : FetchCrm(t) \/ QueryCrm(t) \/ StoreCrm(t)
SpecSync == InitSync /\ [][NextSync]_vars

(***************************************************************************)
(* Claims about the CRM router (checked under SpecSync).                   *)
(***************************************************************************)
\* C18: sync_crm is fire-and-forget.  Its step only queues the task and
\* answers "processing": it runs no part of the sync and writes nothing.
\* Every response is the same whatever becomes of the sync, and stays so.
\* A sync runs only as a task that an earlier sync_crm queued.
C18_SyncIsFireAndForget ==
    /\ [](\A r \in DOMAIN requests :
             /\ requests[r].response =
                   [status_code |-> 200,
                    body |-> [message |-> "CRM sync initiated for " \o requests[r].source,
                              status |-> "processing"]]
             /\ r \in DOMAIN background_tasks
             /\ background_tasks[r].source = requests[r].source)
    /\ [][/\ \A r \in DOMAIN requests : r \in DOMAIN requests' /\ requests'[r] = requests[r]
          /\ Len(requests') > Len(requests) =>
                /\ crm_db' = crm_db
                /\ Len(background_tasks') = Len(background_tasks) + 1
                /\ background_tasks'[Len(background_tasks')].pc = "queued"
                /\ \A t \in DOMAIN background_tasks : background_tasks'[t] = background_tasks[t]
          /\ \A t \in DOMAIN background_tasks' :
                background_tasks'[t].pc # "queued" => t \in DOMAIN background_tasks
          /\ crm_db' # crm_db =>
                \E t \in DOMAIN background_tasks : /\ background_tasks[t].pc = "queried"
                                                   /\ background_tasks'[t].pc = "done"]_vars

\* a sync has run and stored a record, another has failed; both requests
\* were answered "processing"
C18_Witness ==
    /\ Len(requests) = 2
    /\ \A r \in DOMAIN requests : requests[r].response.body.status = "processing"
    /\ \E t, u \in DOMAIN background_tasks :
          /\ background_tasks[t].pc = "done" /\ background_tasks[t].caught = None
          /\ background_tasks[u].pc = "done" /\ background_tasks[u].caught # None
    /\ crm_db.crm_records # <<>>

\* what processing HubSpot's results of task t by themselves would commit,
\* or the exception that would end it
HubSpotAlone(t) ==
    LET stored(after) == IF IsExc(after) THEN after
                         ELSE commit(crm_db, background_tasks[t].seen, after)
    IN stored(process_hubspot_results(background_tasks[t].results.hubspot,
                                      background_tasks[t].seen))

\* C21: in a sync of source "all" a vendor's failure is isolated.  Each
\* vendor whose fetch raised adds one entry to the errors list and leaves the
\* other vendor's results in place; and when the task ends, HubSpot's fetched
\* companies all have their record in the tables, whatever became of
\* Salesforce's results, unless storing HubSpot's own results fails.
C21_VendorFailuresIsolated ==
    /\ [](\A t \in DOMAIN background_tasks :
             (background_tasks[t].source = "all" /\ background_tasks[t].pc \in {"fetched", "queried"})
             => Len(background_tasks[t].results.errors) =
                   Cardinality({v \in {"salesforce", "hubspot"} :
                                   background_tasks[t].results[v] = None}))
    /\ [][\A t \in DOMAIN background_tasks :
             (/\ background_tasks[t].source = "all"
              /\ background_tasks[t].pc = "queried" /\ background_tasks'[t].pc = "done"
              /\ background_tasks[t].results.hubspot # None
              /\ ~IsExc(HubSpotAlone(t)))
             => \A c \in DOMAIN background_tasks[t].results.hubspot.companies :
                   \E x \in DOMAIN crm_db'.crm_records :
                      /\ crm_db'.crm_records[x].source = "hubspot"
                      /\ crm_db'.crm_records[x].source_id =
                            background_tasks[t].results.hubspot.companies[c].id]_vars

\* C22: records are upserted, never duplicated: whatever syncs have run, and
\* however they overlapped, the tables hold at most one record for a source
\* and source id, and at most one customer of a name.
C22_RecordsNotDuplicated ==
    /\ \A x, y \in DOMAIN crm_db.crm_records :
          (/\ crm_db.crm_records[x].source = crm_db.crm_records[y].source
           /\ crm_db.crm_records[x].source_id = crm_db.crm_records[y].source_id) => x = y
    /\ \A c, d \in DOMAIN crm_db.customers :
          crm_db.customers[c].name = crm_db.customers[d].name => c = d

=============================================================================
